---- MODULE Spec2Model ----
(***************************************************************************)
(* The ESP32 MQTT brokers of the repository as state machines.              *)
(*                                                                          *)
(* The broker with QoS 1/2 (Arduino_ESP32_MQTT_Broker_Webinterface_QOS1_2   *)
(* .ino) comes first.  One step of it is either the head of loop() (accept) *)
(* or the body of its for loop for one slot of connectedMQTTClients; the    *)
(* peer and the clock move in between.  The broker of unnamed/part_000      *)
(* follows; it shares the containers and is stepped the same way.           *)
(*                                                                          *)
(* A String is a sequence of one-character strings, so that splitTopic      *)
(* parses.  An ActiveSubscription holds the ADDRESS of a slot of the        *)
(* std::vector of sessions: [buf, idx], buf naming the heap buffer of the   *)
(* vector at the time of the SUBSCRIBE.  Reading through an address whose   *)
(* buffer was freed, or whose element was destroyed, is undefined: it may   *)
(* read as any session or as none (Resolutions).                            *)
(***************************************************************************)
EXTENDS Integers, Sequences, FiniteSets, TLC

\* ------------------------------------------------------------------ bounds
MaxConn == 2        \* TCP connections accepted in a run
MaxSubs == 2        \* entries of the subscription index
MaxOutPid == 1      \* packet ids handed out per session
MaxInPid == 1       \* packet ids the clients choose from
MaxPublish == 2     \* PUBLISH packets read in a run
MaxPubRel == 2      \* PUBREL packets read in a run
MaxTicks == 2       \* clock steps in a run
TickMs == 1000      \* length of a clock step, ms
MaxFilters == 2     \* (topic filter, requested QoS) pairs of a SUBSCRIBE
MaxCut == 1         \* bytes missing at the end of a truncated packet
MaxTimeouts == 4    \* clock steps past the QoS time-out in a run
MaxLengthBytes == 5 \* bytes a peer sends after a fixed header
MaxLevels == 3      \* segments of a topic and of a topic filter
MaxPhaseTimeouts == 10  \* QoS time-outs that pass while one message is in flight

\* ------------------------------------------------------- program constants
QoS_TIMEOUT_MS == 5000
MAX_QOS_RETRIES == 3
KeepAliveFactorMs == 1500
Pow16 == 2^16      \* uint16_t

\* -------------------------------------------------------------- input sets
TopicSeq == << <<"a">> >>      \* in the key order of std::map<String,String>
Topics == { TopicSeq[k] : k \in 1..Len(TopicSeq) }
Filters == { <<"a">>, <<"b">> }
Payloads == { <<>>, <<"x">> }
KeepAlives == {0, 1}
PacketIds == 1..MaxInPid
QoSLevels == {0, 1, 2}

VARIABLES
    connectedMQTTClients,   \* std::vector<MQTTClientState>
    activeSubscriptions,    \* std::vector<ActiveSubscription>
    retainedMessages,       \* std::map<String,String>, NoPayload = key absent
    vecBuf,                 \* identity of the heap buffer of connectedMQTTClients
    vecCap,                 \* its capacity
    now,                    \* millis()
    loopIdx,                \* i of the for loop in loop(); 0 = between two loop() calls
    nextSid,                \* number of TCP connections accepted so far, plus one
    sent,                   \* what the last step wrote to the sockets
    ev,                     \* the last step, as the peer saw it
    nread,                  \* packets read so far, by kind
    pendingQoS2             \* std::map<String,QoS2Message> of the broker of part_000

vars == << connectedMQTTClients, activeSubscriptions, retainedMessages, vecBuf,
           vecCap, now, loopIdx, nextSid, sent, ev, nread, pendingQoS2 >>

NoPayload == "absent"
EmptyMap == [x \in {} |-> 0]

\* --------------------------------------------------------------- topic matcher
RECURSIVE indexOf(_, _, _)
indexOf(s, ch, start) ==
    IF start > Len(s) THEN 0
    ELSE IF s[start] = ch THEN start
    ELSE indexOf(s, ch, start + 1)

RECURSIVE splitFrom(_, _)
splitFrom(topic, start) ==
    LET idx == indexOf(topic, "/", start)
    IN  IF idx = 0 THEN << SubSeq(topic, start, Len(topic)) >>
        ELSE << SubSeq(topic, start, idx - 1) >> \o splitFrom(topic, idx + 1)

splitTopic(topic) == splitFrom(topic, 1)

\* A matcher for which a filter that ends in "#" needs a segment for the "#".
topicMatches_hashNeedsLevel(topic, filter) ==
    IF filter = << "#" >> THEN TRUE
    ELSE
      LET topicParts == splitTopic(topic)
          filterParts == splitTopic(filter)
          nf == Len(filterParts)
          nt == Len(topicParts)
      IN  IF nf > 0 /\ filterParts[nf] = << "#" >>
          THEN IF nt >= nf
               THEN \A k \in 1..(nf - 1) :
                        filterParts[k] = << "+" >> \/ topicParts[k] = filterParts[k]
               ELSE FALSE
          ELSE IF nt # nf THEN FALSE
          ELSE \A k \in 1..nt :
                   filterParts[k] = << "+" >> \/ topicParts[k] = filterParts[k]

topicMatches(topic, filter) ==
    IF filter = << "#" >> THEN TRUE
    ELSE
      LET topicParts == splitTopic(topic)
          filterParts == splitTopic(filter)
          nf == Len(filterParts)
          nt == Len(topicParts)
      IN  IF nf > 0 /\ filterParts[nf] = << "#" >>
          THEN IF nt >= nf - 1
               THEN \A k \in 1..(nf - 1) :
                        filterParts[k] = << "+" >> \/ topicParts[k] = filterParts[k]
               ELSE FALSE
          ELSE IF nt # nf THEN FALSE
          ELSE \A k \in 1..nt :
                   filterParts[k] = << "+" >> \/ topicParts[k] = filterParts[k]

\* ------------------------------------------------------------------ packets
\* Records list their fields in TLC's normal order, the order in which the
\* names first occur in this module, so that a record shared by TLC's workers
\* is never rearranged while another worker reads it.
\* A packet written to a socket.  `to` is the connection it was written to;
\* codes are the return codes of a SUBACK (its remaining length is 2 plus
\* their number); fresh, bookkeeping: the packet id of a PUBLISH was not the
\* key of an in-flight entry of the session when sendPublish took it;
\* sub, srcKind, srcSid, srcPid, srcQos are bookkeeping: the subscription-index entry a
\* PUBLISH was sent for and the inbound PUBLISH (or will) it carries.
Pkt(to, type, pid) ==
    [ topic |-> <<>>, to |-> to, type |-> type, pid |-> pid, payload |-> <<>>, qos |-> 0,
      retain |-> FALSE, dup |-> FALSE, codes |-> <<>>, fresh |-> TRUE, sub |-> 0,
      srcKind |-> "none", srcSid |-> 0, srcPid |-> 0, srcQos |-> 0 ]

\* The origin of a forwarded message: kind "pub" (an inbound PUBLISH of QoS q
\* with packet id pid from connection sid), "will" or "retained".
Origin(kind, sid, pid, q) == [ pid |-> pid, kind |-> kind, sid |-> sid, q |-> q ]

NoEvent ==
    [ topic |-> <<>>, pid |-> 0, payload |-> <<>>, qos |-> 0, retain |-> FALSE,
      dup |-> FALSE, sid |-> 0, op |-> "none", idle |-> 0, quiet |-> 0, regular |-> FALSE,
      keepAlive |-> 0, hadWill |-> FALSE, acked |-> FALSE, closedBy |-> "open",
      passes |-> 0, tuples |-> <<>>, connect |-> <<>>, unread |-> <<>>,
      willSent |-> FALSE, frame |-> "none", length |-> <<>>, match |-> <<>> ]

\* ----------------------------------------------------------------- sessions
\* MQTTClientState as loop() constructs it on accept.  sid, closedBy, willSent,
\* lastRecv, regular and x2 are bookkeeping and are never read by the broker;
\* rx is what the socket holds of a frame that was not read to its end.
NoExchange == [ passes |-> 0, phase |-> "none", dups |-> FALSE ]

NewState(sid, t) ==
    [ sid |-> sid, regular |-> TRUE, closedBy |-> "open", willSent |-> FALSE,
      connected |-> TRUE, clientId |-> <<>>, lastSeen |-> t, willTopic |-> <<>>,
      willMessage |-> <<>>, hasLWT |-> FALSE, connectedACKSent |-> FALSE,
      subscribedTopics |-> <<>>, clientKeepAliveSec |-> 0,
      outgoingQoSMessages |-> EmptyMap, incomingQoS2Messages |-> EmptyMap,
      nextOutgoingPacketId |-> 1, lastRecv |-> t,
      x2 |-> [p \in PacketIds |-> NoExchange], rx |-> <<>> ]

MapPut(m, k, v) == [x \in DOMAIN m \cup {k} |-> IF x = k THEN v ELSE m[x]]
MapDel(m, k) == [x \in DOMAIN m \ {k} |-> m[x]]

\* client.stop()
\* client.stop(), or the peer going away; closedBy remembers which came first
Close(cs, why) ==
    IF cs.connected THEN [cs EXCEPT !.connected = FALSE, !.closedBy = why] ELSE cs

Stop(cs) == Close(cs, "broker")

\* ------------------------------------------------------------ packet senders
\* W, the broker's data while one step runs: cl (connectedMQTTClients), subs
\* (activeSubscriptions), ret (retainedMessages), out (bytes written so far),
\* fwd (the messages a forwarding loop ran for), returned (processMQTTClient
\* has returned early).
World(cl, subs, ret) ==
    [ cl |-> cl, subs |-> subs, ret |-> ret, out |-> <<>>, fwd |-> <<>>, returned |-> FALSE ]

\* sendMQTTPacket for the two-byte acknowledgements (sendPubAck, sendPubRec,
\* sendPubRel, sendPubComp): nothing is written to a disconnected client.
sendMQTTPacket(W, j, type, pid) ==
    IF ~W.cl[j].connected THEN W
    ELSE [W EXCEPT !.out = Append(@, Pkt(W.cl[j].sid, type, pid))]

sendPubAck(W, j, pid) == sendMQTTPacket(W, j, "PUBACK", pid)
sendPubRec(W, j, pid) == sendMQTTPacket(W, j, "PUBREC", pid)
sendPubRel(W, j, pid) == sendMQTTPacket(W, j, "PUBREL", pid)
sendPubComp(W, j, pid) == sendMQTTPacket(W, j, "PUBCOMP", pid)

\* A counter that runs through 0.
NextPacketId_throughZero(n) == (n + 1) % Pow16

NextPacketId(n) == IF (n + 1) % Pow16 = 0 THEN 1 ELSE (n + 1) % Pow16

\* sendPublish(clientState, topic, payload, qos, retain); k and org say which
\* index entry and which message the call was made for.
sendPublish(W, j, topic, payload, qos, retain, k, org) ==
    LET cs == W.cl[j]
        packetId == IF qos > 0 THEN cs.nextOutgoingPacketId ELSE 0
        outMsg == [ topic |-> topic, payload |-> payload, qos |-> qos, retain |-> retain,
                    packetId |-> packetId, timestampSent |-> now, retryCount |-> 0,
                    state |-> 0 ]
        cs1 == IF qos > 0
               THEN [cs EXCEPT !.nextOutgoingPacketId = NextPacketId(@),
                               !.outgoingQoSMessages = MapPut(@, packetId, outMsg)]
               ELSE cs
        pkt == [ Pkt(cs.sid, "PUBLISH", packetId) EXCEPT
                    !.topic = topic, !.payload = payload, !.qos = qos, !.retain = retain,
                    !.fresh = packetId \notin DOMAIN cs.outgoingQoSMessages,
                    !.sub = k, !.srcKind = org.kind, !.srcSid = org.sid, !.srcPid = org.pid, !.srcQos = org.q ]
    IN  IF ~cs.connected THEN W
        ELSE [W EXCEPT !.cl[j] = cs1, !.out = Append(@, pkt)]

\* ------------------------------------------------- subscription index, delivery
\* &connectedMQTTClients[i]
AddrOf(i) == [ idx |-> i, buf |-> vecBuf ]

\* A pointer into the current buffer at a constructed element reads that slot,
\* whoever occupies it now.  Any other pointer dangles (freed buffer, or a slot
\* past the end whose element was destroyed).
Live(ptr, n) == ptr.buf = vecBuf /\ ptr.idx <= n

\* What the reads through the pointers of the index can yield in one step: r[k]
\* is the slot entry k is read as; 0 for a dangling one that reads as not
\* connected.  A dangling pointer may read as any slot or as garbage.
Resolutions(subs, n) ==
    { r \in [1..Len(subs) -> 0..n] :
        \A k \in 1..Len(subs) :
            Live(subs[k].clientState, n) => r[k] = subs[k].clientState.idx }

\* for (auto &sub : activeSubscriptions)
\*     if (sub.clientState->client.connected() && topicMatches(topic, sub.topicFilter))
\*         sendPublish(*sub.clientState, topic, payload, sub.qos, retain);
RECURSIVE forwardFrom(_, _, _, _, _, _, _)
forwardFrom(W, k, r, topic, payload, retain, org) ==
    IF k > Len(W.subs) THEN W
    ELSE LET sub == W.subs[k]
             hit == r[k] # 0 /\ W.cl[r[k]].connected /\ topicMatches(topic, sub.topicFilter)
             W1 == IF hit THEN sendPublish(W, r[k], topic, payload, sub.qos, retain, k, org)
                   ELSE W
         IN  forwardFrom(W1, k + 1, r, topic, payload, retain, org)

forwardToSubscribers(W, r, topic, payload, retain, org) ==
    forwardFrom([W EXCEPT !.fwd = Append(@, [ topic |-> topic, payload |-> payload,
                                              org |-> org ])],
                1, r, topic, payload, retain, org)

\* -------------------------------------------------------------- inbound packets
\* What the broker reads from a socket in one pass; type is the MQTT packet type
\* of the fixed header; NoData: fewer than two bytes are available.  tuples is
\* the payload of a SUBSCRIBE, its (topic filter, requested QoS) pairs; topic
\* and reqQos are the first of them.
InPkt(type) ==
    [ topic |-> <<>>, type |-> type, pid |-> 0, payload |-> <<>>, qos |-> 0,
      retain |-> FALSE, dup |-> FALSE, tuples |-> <<>>, avail |-> TRUE, reqQos |-> 0 ]

NoData == [ InPkt(0) EXCEPT !.avail = FALSE ]

PublishPackets ==
    { [ InPkt(3) EXCEPT !.qos = q, !.retain = rt, !.dup = d, !.pid = p,
                        !.topic = t, !.payload = pl ] :
        q \in QoSLevels, rt \in BOOLEAN, d \in BOOLEAN, p \in PacketIds \cup {0},
        t \in Topics, pl \in Payloads }

\* A PUBLISH carries a packet id exactly when its QoS is above 0.
WellFormedPublish(pkt) == (pkt.qos = 0) = (pkt.pid = 0)

SubscribePackets ==
    { [ InPkt(8) EXCEPT !.pid = p, !.topic = f, !.reqQos = q,
                        !.tuples = << [ filter |-> f, qos |-> q ] >> ] :
        p \in PacketIds, f \in Filters, q \in QoSLevels }

\* A SUBSCRIBE with up to MaxFilters pairs, requested QoS 3 included.
SubscribeLists ==
    { [ InPkt(8) EXCEPT !.pid = p, !.topic = ts[1].filter, !.reqQos = ts[1].qos,
                        !.tuples = ts ] :
        p \in PacketIds,
        ts \in UNION { [1..n -> [filter : Filters, qos : 0..3]] : n \in 1..MaxFilters } }

AckPackets(type) == { [ InPkt(type) EXCEPT !.pid = p ] : p \in 1..MaxOutPid }

\* --------------------------------------------------------------- the handlers
\* handlePublish, qos == 2: PUBREC; the message is stored (state "PUBREC sent")
\* unless it is a DUP of one stored in state 0.  org, retain and
\* later are bookkeeping, no members of IncomingQoS2State: the PUBLISH the
\* stored message came with, its RETAIN bit, and the connections that were
\* written a PUBLISH which the same session sent on the same topic while the
\* message was stored.
acceptQoS2(W, i, pkt) ==
    LET cs == W.cl[i]
        packetId == pkt.pid
        inMsg == [ topic |-> pkt.topic, payload |-> pkt.payload, qos |-> pkt.qos,
                   retain |-> pkt.retain,
                   org |-> Origin("pub", cs.sid, packetId, pkt.qos),
                   packetId |-> packetId, state |-> 0, timestampReceived |-> now,
                   later |-> {} ]
        isDup == /\ packetId \in DOMAIN cs.incomingQoS2Messages
                 /\ cs.incomingQoS2Messages[packetId].state = 0
                 /\ pkt.dup
    IN  IF isDup THEN sendPubRec(W, i, packetId)
        ELSE sendPubRec(
               [W EXCEPT !.cl[i].incomingQoS2Messages =
                             MapPut(@, packetId, [inMsg EXCEPT !.state = 1])],
               i, packetId)

\* A store that keeps whatever payload a RETAIN=1 PUBLISH carries.
distributeQoS0_storesEmpty(W, i, pkt, r) ==
    LET ret0 == IF pkt.retain THEN [W.ret EXCEPT ![pkt.topic] = pkt.payload] ELSE W.ret
    IN  forwardToSubscribers([W EXCEPT !.ret = ret0], r, pkt.topic, pkt.payload,
                             pkt.retain, Origin("pub", W.cl[i].sid, pkt.pid, pkt.qos))

\* handlePublish, qos == 0: the retained store, then the forwarding loop
distributeQoS0(W, i, pkt, r) ==
    LET ret0 == IF pkt.retain
                THEN [W.ret EXCEPT ![pkt.topic] =
                         IF Len(pkt.payload) = 0 THEN NoPayload ELSE pkt.payload]
                ELSE W.ret
    IN  forwardToSubscribers([W EXCEPT !.ret = ret0], r, pkt.topic, pkt.payload,
                             pkt.retain, Origin("pub", W.cl[i].sid, pkt.pid, pkt.qos))

\* A broker that forwards a QoS 2 PUBLISH as soon as it has stored it.
handlePublish_forwardOnReceipt(W, i, pkt, r) ==
    IF pkt.qos = 1 THEN sendPubAck(W, i, pkt.pid)
    ELSE IF pkt.qos = 2
    THEN forwardToSubscribers(acceptQoS2(W, i, pkt), r, pkt.topic, pkt.payload, pkt.retain,
                              Origin("pub", W.cl[i].sid, pkt.pid, pkt.qos))
    ELSE IF pkt.qos = 0 THEN distributeQoS0(W, i, pkt, r)
    ELSE W

handlePublish(W, i, pkt, r) ==
    IF pkt.qos = 1 THEN sendPubAck(W, i, pkt.pid)
    ELSE IF pkt.qos = 2 THEN acceptQoS2(W, i, pkt)
    ELSE IF pkt.qos = 0 THEN distributeQoS0(W, i, pkt, r)
    ELSE W

handlePubAck(W, i, pkt) ==
    [W EXCEPT !.cl[i].outgoingQoSMessages = MapDel(@, pkt.pid)]

\* A handler that starts the PUBREL phase anew on every PUBREC.
handlePubRec_anyState(W, i, pkt) ==
    LET cs == W.cl[i]
        packetId == pkt.pid
    IN  IF packetId \in DOMAIN cs.outgoingQoSMessages
        THEN LET outMsg == cs.outgoingQoSMessages[packetId]
             IN  IF outMsg.qos = 2
                 THEN sendPubRel(
                        [W EXCEPT !.cl[i].outgoingQoSMessages[packetId] =
                            [outMsg EXCEPT !.state = 1, !.timestampSent = now,
                                           !.retryCount = 0]],
                        i, packetId)
                 ELSE W
        ELSE sendPubRel(W, i, packetId)

handlePubRec(W, i, pkt) ==
    LET cs == W.cl[i]
        packetId == pkt.pid
    IN  IF packetId \in DOMAIN cs.outgoingQoSMessages
        THEN LET outMsg == cs.outgoingQoSMessages[packetId]
             IN  IF outMsg.qos = 2 /\ outMsg.state = 0
                 THEN sendPubRel(
                        [W EXCEPT !.cl[i].outgoingQoSMessages[packetId] =
                            [outMsg EXCEPT !.state = 1, !.timestampSent = now,
                                           !.retryCount = 0]],
                        i, packetId)
                 ELSE W
        ELSE sendPubRel(W, i, packetId)

\* A broker that keeps the stored message after it has released it.
handlePubRel_keepsMessage(W, i, pkt, r) ==
    LET cs == W.cl[i]
        packetId == pkt.pid
    IN  IF packetId \in DOMAIN cs.incomingQoS2Messages
        THEN LET inMsg == cs.incomingQoS2Messages[packetId]
                 W1 == sendPubComp(W, i, packetId)
                 W2 == forwardToSubscribers(W1, r, inMsg.topic, inMsg.payload,
                                            (inMsg.qos = 2 /\ inMsg.qos = 2), inMsg.org)
             IN  IF inMsg.state = 1
                 THEN W2
                 ELSE sendPubComp(W, i, packetId)
        ELSE IF packetId \in DOMAIN cs.outgoingQoSMessages
        THEN LET outMsg == cs.outgoingQoSMessages[packetId]
             IN  IF outMsg.qos = 2 /\ outMsg.state = 1
                 THEN [ sendPubComp(W, i, packetId) EXCEPT
                          !.cl[i].outgoingQoSMessages[packetId] =
                             [outMsg EXCEPT !.state = 2, !.timestampSent = now,
                                            !.retryCount = 0] ]
                 ELSE W
        ELSE sendPubComp(W, i, packetId)

handlePubRel(W, i, pkt, r) ==
    LET cs == W.cl[i]
        packetId == pkt.pid
    IN  IF packetId \in DOMAIN cs.incomingQoS2Messages
        THEN LET inMsg == cs.incomingQoS2Messages[packetId]
                 W1 == sendPubComp(W, i, packetId)
                 W2 == forwardToSubscribers(W1, r, inMsg.topic, inMsg.payload,
                                            (inMsg.qos = 2 /\ inMsg.qos = 2), inMsg.org)
             IN  IF inMsg.state = 1
                 THEN [W2 EXCEPT !.cl[i].incomingQoS2Messages = MapDel(@, packetId)]
                 ELSE sendPubComp(W, i, packetId)
        ELSE IF packetId \in DOMAIN cs.outgoingQoSMessages
        THEN LET outMsg == cs.outgoingQoSMessages[packetId]
             IN  IF outMsg.qos = 2 /\ outMsg.state = 1
                 THEN [ sendPubComp(W, i, packetId) EXCEPT
                          !.cl[i].outgoingQoSMessages[packetId] =
                             [outMsg EXCEPT !.state = 2, !.timestampSent = now,
                                            !.retryCount = 0] ]
                 ELSE W
        ELSE sendPubComp(W, i, packetId)

\* A broker that drops a session which completes an exchange it never began.
handlePubComp_strict(W, i, pkt) ==
    IF pkt.pid \in DOMAIN W.cl[i].outgoingQoSMessages
    THEN [W EXCEPT !.cl[i].outgoingQoSMessages = MapDel(@, pkt.pid)]
    ELSE [W EXCEPT !.cl[i] = Stop(@)]

handlePubComp(W, i, pkt) ==
    [W EXCEPT !.cl[i].outgoingQoSMessages = MapDel(@, pkt.pid)]

\* the retained replay of handleSubscribe, in the key order of the map
RECURSIVE replayFrom(_, _, _, _, _)
replayFrom(W, i, k, filter, grantedQoS) ==
    IF k > Len(TopicSeq) THEN W
    ELSE LET retainedTopic == TopicSeq[k]
             W1 == IF W.ret[retainedTopic] # NoPayload /\ topicMatches(retainedTopic, filter)
                   THEN sendPublish(W, i, retainedTopic, W.ret[retainedTopic], grantedQoS,
                                    TRUE, 0, Origin("retained", 0, 0, 0))
                   ELSE W
         IN  replayFrom(W1, i, k + 1, filter, grantedQoS)

\* A broker that replays the retained messages before it acknowledges.
handleSubscribe_replayFirst(W, i, pkt) ==
    LET cs == W.cl[i]
        grantedQoS == IF pkt.reqQos > 2 THEN 0 ELSE pkt.reqQos
        suback == [ Pkt(cs.sid, "SUBACK", pkt.pid) EXCEPT !.qos = grantedQoS,
                                                          !.codes = << grantedQoS >> ]
        newSub == [ qos |-> grantedQoS, clientState |-> AddrOf(i),
                    topicFilter |-> pkt.topic, owner |-> cs.sid ]
        W1 == [W EXCEPT !.subs = Append(@, newSub),
                        !.cl[i].subscribedTopics = Append(@, pkt.topic)]
    IN  [ replayFrom(W1, i, 1, pkt.topic, grantedQoS) EXCEPT !.out = Append(@, suback) ]

handleSubscribe(W, i, pkt) ==
    LET cs == W.cl[i]
        grantedQoS == IF pkt.reqQos > 2 THEN 0 ELSE pkt.reqQos
        suback == [ Pkt(cs.sid, "SUBACK", pkt.pid) EXCEPT !.qos = grantedQoS,
                                                          !.codes = << grantedQoS >> ]
        newSub == [ qos |-> grantedQoS, clientState |-> AddrOf(i),
                    topicFilter |-> pkt.topic, owner |-> cs.sid ]
        W1 == [W EXCEPT !.out = Append(@, suback),
                        !.subs = Append(@, newSub),
                        !.cl[i].subscribedTopics = Append(@, pkt.topic)]
    IN  replayFrom(W1, i, 1, pkt.topic, grantedQoS)

handlePingReq(W, i) ==
    [W EXCEPT !.out = Append(@, Pkt(W.cl[i].sid, "PINGRESP", 0)),
              !.cl[i].lastSeen = now]

\* --------------------------------------------------------- processMQTTClient
Min(S) == CHOOSE x \in S : \A y \in S : x <= y

\* millis() - since in unsigned long arithmetic; millis() never runs below a
\* stored time stamp here (it wraps after 49 days), so no borrow occurs.
Elapsed(since) == now - since

KeepAliveExpired(cs) ==
    /\ cs.clientKeepAliveSec > 0
    /\ Elapsed(cs.lastSeen) > cs.clientKeepAliveSec * KeepAliveFactorMs

\* the keep-alive branch: will to the matching subscribers, then client.stop()
keepAliveClose(W, i, r) ==
    LET cs == W.cl[i]
        W1 == IF cs.hasLWT
              THEN forwardToSubscribers(W, r, cs.willTopic, cs.willMessage, FALSE,
                                        Origin("will", cs.sid, 0, 0))
              ELSE W
    IN  [W1 EXCEPT !.cl[i] = Stop([@ EXCEPT !.willSent = cs.hasLWT]), !.returned = TRUE]

\* A loop that retransmits once more before it gives up.
RECURSIVE retransmitOutgoing_oneMore(_, _, _)
retransmitOutgoing_oneMore(W, i, keys) ==
    IF keys = {} THEN W
    ELSE
      LET p == Min(keys)
          outMsg == W.cl[i].outgoingQoSMessages[p]
          again == [outMsg EXCEPT !.retryCount = @ + 1, !.timestampSent = now]
          W1 == [W EXCEPT !.cl[i].outgoingQoSMessages[p] = again]
          dupPublish == [ Pkt(W.cl[i].sid, "PUBLISH", outMsg.packetId) EXCEPT
                            !.topic = outMsg.topic, !.payload = outMsg.payload,
                            !.qos = outMsg.qos, !.retain = outMsg.retain, !.dup = TRUE ]
          W2 == IF outMsg.qos = 1 \/ (outMsg.qos = 2 /\ outMsg.state = 0)
                THEN [W1 EXCEPT !.out = Append(@, dupPublish)]
                ELSE IF outMsg.qos = 2 /\ outMsg.state = 1
                THEN sendPubRel(W1, i, outMsg.packetId)
                ELSE sendPubComp(W1, i, outMsg.packetId)
      IN  IF Elapsed(outMsg.timestampSent) > QoS_TIMEOUT_MS
          THEN IF outMsg.retryCount <= MAX_QOS_RETRIES
               THEN retransmitOutgoing_oneMore(W2, i, keys \ {p})
               ELSE [W EXCEPT !.cl[i] = Close([@ EXCEPT !.outgoingQoSMessages = MapDel(@, p)],
                                                   "retries"),
                              !.returned = TRUE]
          ELSE retransmitOutgoing_oneMore(W, i, keys \ {p})

\* the retransmission loop over outgoingQoSMessages, in key order
RECURSIVE retransmitOutgoing(_, _, _)
retransmitOutgoing(W, i, keys) ==
    IF keys = {} THEN W
    ELSE
      LET p == Min(keys)
          outMsg == W.cl[i].outgoingQoSMessages[p]
          again == [outMsg EXCEPT !.retryCount = @ + 1, !.timestampSent = now]
          W1 == [W EXCEPT !.cl[i].outgoingQoSMessages[p] = again]
          dupPublish == [ Pkt(W.cl[i].sid, "PUBLISH", outMsg.packetId) EXCEPT
                            !.topic = outMsg.topic, !.payload = outMsg.payload,
                            !.qos = outMsg.qos, !.retain = outMsg.retain, !.dup = TRUE ]
          W2 == IF outMsg.qos = 1 \/ (outMsg.qos = 2 /\ outMsg.state = 0)
                THEN IF W1.cl[i].connected
                     THEN [W1 EXCEPT !.out = Append(@, dupPublish)] ELSE W1
                ELSE IF outMsg.qos = 2 /\ outMsg.state = 1
                THEN sendPubRel(W1, i, outMsg.packetId)
                ELSE IF outMsg.qos = 2 /\ outMsg.state = 2
                THEN sendPubComp(W1, i, outMsg.packetId)
                ELSE W1
      IN  IF Elapsed(outMsg.timestampSent) > QoS_TIMEOUT_MS
          THEN IF outMsg.retryCount < MAX_QOS_RETRIES
               THEN retransmitOutgoing(W2, i, keys \ {p})
               ELSE [W EXCEPT !.cl[i] = Close([@ EXCEPT !.outgoingQoSMessages = MapDel(@, p)],
                                                   "retries"),
                              !.returned = TRUE]
          ELSE retransmitOutgoing(W, i, keys \ {p})

\* the loop over incomingQoS2Messages: the last acknowledgement again
RECURSIVE retransmitIncoming(_, _, _)
retransmitIncoming(W, i, keys) ==
    IF keys = {} THEN W
    ELSE
      LET p == Min(keys)
          inMsg == W.cl[i].incomingQoS2Messages[p]
          W1 == IF Elapsed(inMsg.timestampReceived) > QoS_TIMEOUT_MS
                THEN IF inMsg.state = 1 THEN sendPubRec(W, i, inMsg.packetId)
                     ELSE IF inMsg.state = 2 THEN sendPubComp(W, i, inMsg.packetId)
                     ELSE W
                ELSE W
      IN  retransmitIncoming(W1, i, keys \ {p})

\* A broker whose default case stops the first session of the vector.
dispatch_stopFirst(W, i, pkt, r) ==
    CASE pkt.type = 1  -> W
      [] pkt.type = 3  -> handlePublish(W, i, pkt, r)
      [] pkt.type = 4  -> handlePubAck(W, i, pkt)
      [] pkt.type = 5  -> handlePubRec(W, i, pkt)
      [] pkt.type = 6  -> handlePubRel(W, i, pkt, r)
      [] pkt.type = 7  -> handlePubComp(W, i, pkt)
      [] pkt.type = 8  -> handleSubscribe(W, i, pkt)
      [] pkt.type = 12 -> handlePingReq(W, i)
      [] pkt.type = 14 -> [W EXCEPT !.cl[i] = Close(@, "disconnect")]
      [] OTHER         -> [W EXCEPT !.cl[1] = Stop(@)]

\* switch (packetType)
dispatch(W, i, pkt, r) ==
    CASE pkt.type = 1  -> W
      [] pkt.type = 3  -> handlePublish(W, i, pkt, r)
      [] pkt.type = 4  -> handlePubAck(W, i, pkt)
      [] pkt.type = 5  -> handlePubRec(W, i, pkt)
      [] pkt.type = 6  -> handlePubRel(W, i, pkt, r)
      [] pkt.type = 7  -> handlePubComp(W, i, pkt)
      [] pkt.type = 8  -> handleSubscribe(W, i, pkt)
      [] pkt.type = 12 -> handlePingReq(W, i)
      [] pkt.type = 14 -> [W EXCEPT !.cl[i] = Close(@, "disconnect")]
      [] OTHER         -> [W EXCEPT !.cl[i] = Stop(@)]

processMQTTClient(W, i, pkt, r) ==
    LET cs == W.cl[i]
        W1 == retransmitOutgoing(W, i, DOMAIN cs.outgoingQoSMessages)
        W2 == retransmitIncoming(W1, i, DOMAIN W1.cl[i].incomingQoS2Messages)
    IN  IF ~cs.connected THEN [W EXCEPT !.returned = TRUE]
        ELSE IF KeepAliveExpired(cs) THEN keepAliveClose(W, i, r)
        ELSE IF W1.returned THEN W1
        ELSE IF ~pkt.avail THEN W2
        ELSE dispatch(W2, i, pkt, r)

\* ------------------------------------------------------------ bookkeeping
\* The QoS 2 exchange of packet id p as the publisher runs it: "published" from
\* its PUBLISH p (DUP or not) until its first PUBREL p, then "released"; a
\* PUBLISH p with DUP=1 after the PUBREL is no retransmission a publisher makes
\* ("broken").  passes counts the forwarding loops run for the exchange.
Exchange(x, pkt, passes) ==
    LET bump(e) == [e EXCEPT !.passes = IF @ + passes > 2 THEN 2 ELSE @ + passes]
        fresh == [ passes |-> 0, phase |-> "published", dups |-> FALSE ]
    IN  IF pkt.type = 3 /\ pkt.qos = 2 /\ pkt.pid \in PacketIds
        THEN [x EXCEPT ![pkt.pid] =
                 IF ~pkt.dup \/ @.phase = "none" THEN bump(fresh)
                 ELSE IF @.phase = "published" THEN bump([@ EXCEPT !.dups = TRUE])
                 ELSE bump([@ EXCEPT !.phase = "broken"])]
        ELSE IF pkt.type = 6 /\ pkt.pid \in PacketIds
        THEN [x EXCEPT ![pkt.pid] =
                 IF @.phase \in {"published", "released"}
                 THEN bump([@ EXCEPT !.phase = "released"])
                 ELSE bump(@)]
        ELSE x

\* The session after a packet was read from it.
Received(before, after, pkt, passes, out) ==
    [after EXCEPT
        !.incomingQoS2Messages =
            [p \in DOMAIN @ |->
                IF pkt.type = 3 /\ @[p].topic = pkt.topic
                THEN [@[p] EXCEPT !.later = @ \cup
                        { out[m].to : m \in { n \in 1..Len(out) :
                                                /\ out[n].type = "PUBLISH"
                                                /\ out[n].srcKind = "pub"
                                                /\ out[n].srcSid = before.sid
                                                /\ out[n].topic = pkt.topic } }]
                ELSE @[p]],
        !.lastRecv = now,
        !.regular = before.regular
                    /\ Elapsed(before.lastRecv) <= before.clientKeepAliveSec * 1000,
        !.x2 = Exchange(before.x2, pkt, passes)]

OpName(pkt) ==
    CASE ~pkt.avail -> "idle"
      [] pkt.type = 1  -> "connect"
      [] pkt.type = 3  -> "publish"
      [] pkt.type = 4  -> "puback"
      [] pkt.type = 5  -> "pubrec"
      [] pkt.type = 6  -> "pubrel"
      [] pkt.type = 7  -> "pubcomp"
      [] pkt.type = 8  -> "subscribe"
      [] pkt.type = 12 -> "pingreq"
      [] pkt.type = 14 -> "disconnect"
      [] OTHER         -> "unknown"

\* What a step did: the packet read, the session it was read from as the step
\* found it, and the message the forwarding loop ran for (fwd), if it ran.
Event(op, cs, pkt, fwd) ==
    [ topic |-> IF fwd # <<>> THEN fwd[1].topic ELSE pkt.topic, pid |-> pkt.pid,
      payload |-> IF fwd # <<>> THEN fwd[1].payload ELSE pkt.payload, qos |-> pkt.qos,
      retain |-> pkt.retain, dup |-> pkt.dup, sid |-> cs.sid, op |-> op,
      idle |-> Elapsed(cs.lastSeen), quiet |-> Elapsed(cs.lastRecv),
      regular |-> cs.regular /\ Elapsed(cs.lastRecv) <= cs.clientKeepAliveSec * 1000,
      keepAlive |-> cs.clientKeepAliveSec, hadWill |-> cs.hasLWT,
      acked |-> cs.connectedACKSent, closedBy |-> cs.closedBy, passes |-> Len(fwd),
      tuples |-> pkt.tuples, connect |-> <<>>, unread |-> <<>>, willSent |-> cs.willSent,
      frame |-> "none", length |-> <<>>, match |-> <<>> ]

\* The model stops where a session would be handed more than MaxOutPid
\* packet ids, and where more PUBLISH or PUBREL packets would be read than
\* MaxPublish, MaxPubRel.
WithinBounds(cl) ==
    \A j \in 1..Len(cl) : cl[j].nextOutgoingPacketId <= MaxOutPid + 1

Count(n, op) ==
    [ publish |-> n.publish + (IF op = "publish" THEN 1 ELSE 0),
      pubrel |-> n.pubrel + (IF op = "pubrel" THEN 1 ELSE 0) ]

WithinBudget(n) == n.publish <= MaxPublish /\ n.pubrel <= MaxPubRel

\* ------------------------------------------------------------------- loop()
\* The head of loop(): mqttServer.available() returned a new connection.
\* push_back reallocates when the vector is full (capacity doubles).
LoopAccept ==
    /\ loopIdx = 0
    /\ nextSid <= MaxConn
    /\ LET full == Len(connectedMQTTClients) = vecCap
       IN  /\ vecBuf' = IF full THEN vecBuf + 1 ELSE vecBuf
           /\ vecCap' = IF full THEN (IF vecCap = 0 THEN 1 ELSE 2 * vecCap) ELSE vecCap
    /\ connectedMQTTClients' = Append(connectedMQTTClients, NewState(nextSid, now))
    /\ nextSid' = nextSid + 1
    /\ loopIdx' = Len(connectedMQTTClients) + 1
    /\ sent' = <<>>
    /\ ev' = [NoEvent EXCEPT !.op = "accept", !.sid = nextSid]
    /\ UNCHANGED << activeSubscriptions, retainedMessages, now, nread, pendingQoS2 >>

\* The head of loop() with no new connection.
LoopNoAccept ==
    /\ loopIdx = 0
    /\ loopIdx' = Len(connectedMQTTClients)
    /\ sent' = <<>>
    /\ ev' = [NoEvent EXCEPT !.op = "loop"]
    /\ UNCHANGED << connectedMQTTClients, activeSubscriptions, retainedMessages,
                    vecBuf, vecCap, now, nextSid, nread, pendingQoS2 >>

\* What one pass of the for loop leaves behind.
Commit(Wx, e) ==
    \E W \in { Wx } :
    /\ WithinBounds(W.cl)
    /\ connectedMQTTClients' = W.cl
    /\ activeSubscriptions' = W.subs
    /\ retainedMessages' = W.ret
    /\ sent' = W.out
    /\ ev' = e
    /\ nread' = Count(nread, e.op)
    /\ WithinBudget(nread')
    /\ loopIdx' = loopIdx - 1
    /\ UNCHANGED << vecBuf, vecCap, now, nextSid, pendingQoS2 >>

Here == World(connectedMQTTClients, activeSubscriptions, retainedMessages)

AwaitingConnect ==
    /\ loopIdx >= 1
    /\ connectedMQTTClients[loopIdx].connected
    /\ ~connectedMQTTClients[loopIdx].connectedACKSent

Established ==
    /\ loopIdx >= 1
    /\ connectedMQTTClients[loopIdx].connected
    /\ connectedMQTTClients[loopIdx].connectedACKSent

\* loop(), a session without CONNACK: fewer than two bytes available
AwaitData ==
    /\ AwaitingConnect
    /\ Commit(Here, Event("await", connectedMQTTClients[loopIdx], NoData, <<>>))

\* loop(), a session without CONNACK: the CONNECT packet
ConnectPackets ==
    { [ keepAlive |-> k, clientId |-> c, willTopic |-> wt, willMessage |-> wm,
        willFlag |-> wf ] :
        k \in KeepAlives, c \in { <<"c">> }, wf \in BOOLEAN, wt \in Topics,
        wm \in { <<"w">> } }

loopConnect(W, i, c) ==
    LET cs == W.cl[i]
        cs1 == [cs EXCEPT !.clientKeepAliveSec = c.keepAlive, !.clientId = c.clientId]
        cs2 == IF c.willFlag
               THEN [cs1 EXCEPT !.willTopic = c.willTopic, !.willMessage = c.willMessage,
                                !.hasLWT = TRUE]
               ELSE cs1
    IN  [W EXCEPT !.cl[i] = [cs2 EXCEPT !.connectedACKSent = TRUE, !.lastSeen = now],
                  !.out = Append(@, Pkt(cs.sid, "CONNACK", 0))]

Connect(cps) ==
    /\ AwaitingConnect
    /\ \E c \in cps :
         /\ c.willFlag \/ c.willTopic = TopicSeq[1]
         /\ LET i == loopIdx
                cs == connectedMQTTClients[i]
                W == loopConnect(Here, i, c)
            IN  Commit([W EXCEPT !.cl[i] = Received(cs, @, InPkt(1), 0, <<>>)],
                       Event("connect", cs, InPkt(1), <<>>))

\* ------------------------------------------------- the bytes of a CONNECT
\* The characters the packets of the model are written with, and their codes.
CharCode ==
    ("a" :> 97) @@ ("b" :> 98) @@ ("c" :> 99) @@ ("w" :> 119) @@ ("x" :> 120)
    @@ ("#" :> 35)

\* String(buffer) for a zero-terminated char buffer: the characters before the
\* first zero byte; a byte that is no character of the model reads as "?".
RECURSIVE CString(_)
CString(bytes) ==
    IF bytes = <<>> \/ Head(bytes) = 0 THEN <<>>
    ELSE LET known == { ch \in DOMAIN CharCode : CharCode[ch] = Head(bytes) }
         IN  << IF known = {} THEN "?" ELSE CHOOSE ch \in known : TRUE >>
             \o CString(Tail(bytes))

\* readLengthPrefixedString(client), the socket holding the bytes s and no
\* more arriving within the time-out of waitForBytes: the String read and the
\* bytes left in the socket.
readLengthPrefixedString(s) ==
    IF Len(s) < 2 THEN [ str |-> <<>>, rest |-> s ]
    ELSE LET len == s[1] * 256 + s[2]
             s1 == SubSeq(s, 3, Len(s))
         IN  IF len = 0 \/ Len(s1) < len THEN [ str |-> <<>>, rest |-> s1 ]
             ELSE [ str |-> CString(SubSeq(s1, 1, len)),
                    rest |-> SubSeq(s1, len + 1, Len(s1)) ]

\* loop(), the CONNECT branch after the fixed header was consumed and all
\* remainingLength bytes (body) have arrived: eight bytes are skipped, then
\* the flags, the keep-alive and the strings are read.  The two reads of
\* (client.read() << 8) | client.read() are taken left to right.
parseConnect(body) ==
    LET connectFlags == body[9]
        keepAlive == (body[10] * 256 + body[11]) % Pow16
        id == readLengthPrefixedString(SubSeq(body, 12, Len(body)))
        willFlag == (connectFlags \div 4) % 2 = 1
        wt == IF willFlag THEN readLengthPrefixedString(id.rest)
              ELSE [ str |-> <<>>, rest |-> id.rest ]
        wm == IF willFlag THEN readLengthPrefixedString(wt.rest)
              ELSE [ str |-> <<>>, rest |-> wt.rest ]
        user == IF (connectFlags \div 128) % 2 = 1 THEN readLengthPrefixedString(wm.rest)
                ELSE wm
        pass == IF (connectFlags \div 64) % 2 = 1 THEN readLengthPrefixedString(user.rest)
                ELSE user
    IN  [ keepAlive |-> keepAlive, clientId |-> id.str, willTopic |-> wt.str,
          willMessage |-> wm.str, willFlag |-> willFlag, rest |-> pass.rest ]

\* The CONNECT packets of MQTT 3.1.1 the peers send: protocol name "MQTT",
\* level 4, clean session; user name and password are "c" when present.
WellFormedConnects ==
    { c \in [ keepAlive : {60, 1024}, clientId : { <<"c">> }, willFlag : BOOLEAN,
              willTopic : Topics, willMessage : { <<"w">> }, userNameFlag : BOOLEAN,
              passwordFlag : BOOLEAN ] :
        c.passwordFlag => c.userNameFlag }

\* The bytes of such a packet: fixed header 0x10 and remaining length, then
\* 00 04 'M' 'Q' 'T' 'T' 04, the connect flags, the keep-alive (big-endian)
\* and the length-prefixed strings.
EncodeConnect(c) ==
    LET str(x) == << Len(x) \div 256, Len(x) % 256 >> \o [ k \in 1..Len(x) |-> CharCode[x[k]] ]
        flags == (IF c.userNameFlag THEN 128 ELSE 0) + (IF c.passwordFlag THEN 64 ELSE 0)
                 + (IF c.willFlag THEN 4 ELSE 0) + 2
        body == << 0, 4, 77, 81, 84, 84, 4, flags, c.keepAlive \div 256, c.keepAlive % 256 >>
                \o str(c.clientId)
                \o (IF c.willFlag THEN str(c.willTopic) \o str(c.willMessage) ELSE <<>>)
                \o (IF c.userNameFlag THEN str(<<"c">>) ELSE <<>>)
                \o (IF c.passwordFlag THEN str(<<"c">>) ELSE <<>>)
    IN  << 16, Len(body) >> \o body

\* loop(), a session without CONNACK: a CONNECT packet has arrived, as bytes.
\* The peer sends a packet of WellFormedConnects, or one whose last cut bytes
\* are missing (its remaining length counts the bytes that are there).
ConnectBytes ==
    /\ AwaitingConnect
    /\ \E c \in WellFormedConnects, cut \in 0..MaxCut :
         LET i == loopIdx
             cs == connectedMQTTClients[i]
             whole == EncodeConnect(c)
             body == SubSeq(whole, 3, Len(whole) - cut)
             packet == << whole[1], Len(body) >> \o body
             parsed == parseConnect(body)
             W == loopConnect(Here, i, parsed)
         IN  /\ c.willFlag \/ c.willTopic = TopicSeq[1]
             /\ packet[1] \div 16 = 1
             /\ Commit([W EXCEPT !.cl[i] = Received(cs, @, InPkt(1), 0, <<>>)],
                       [Event("connect", cs, InPkt(1), <<>>) EXCEPT
                           !.connect = [ cut |-> cut ] @@ c, !.unread = parsed.rest])

\* loop(), a session without CONNACK: the first packet is no CONNECT, or its
\* body does not arrive in time: client.stop()
RejectFirstPacket ==
    /\ AwaitingConnect
    /\ \E why \in {"not_connect", "connect_timeout"} :
         LET i == loopIdx
             cs == connectedMQTTClients[i]
         IN  Commit([Here EXCEPT !.cl[i] = Stop(@)],
                    Event(why, cs, NoData, <<>>))

\* loop(), an established session: processMQTTClient(connectedMQTTClients[i])
\* with the packet pkt waiting in the socket.
Process(pkts) ==
    /\ Established
    /\ ~KeepAliveExpired(connectedMQTTClients[loopIdx])
    /\ \E pkt \in pkts, r \in Resolutions(activeSubscriptions, Len(connectedMQTTClients)) :
         \E W \in { processMQTTClient(Here, loopIdx, pkt, r) } :
           LET i == loopIdx
               cs == connectedMQTTClients[i]
               passes == Len(W.fwd)
               read == ~W.returned /\ pkt.avail
           IN  Commit(IF read THEN [W EXCEPT !.cl[i] = Received(cs, @, pkt, passes, W.out)] ELSE W,
                      Event(IF W.returned THEN "retries" ELSE OpName(pkt), cs, pkt, W.fwd))

\* The broker reads DUP only from a QoS 2 PUBLISH.
Publishes(qs, pls) ==
    { pkt \in PublishPackets :
        /\ WellFormedPublish(pkt)
        /\ pkt.qos \in qs
        /\ pkt.payload \in pls
        /\ pkt.dup => pkt.qos = 2 }

RecvNothing == Process({NoData})
RecvSubscribe == Len(activeSubscriptions) < MaxSubs /\ Process(SubscribePackets)
RecvPubAck == Process(AckPackets(4))
RecvPubRec == Process(AckPackets(5))
RecvPubRel == Process(AckPackets(6))
RecvPubComp == Process(AckPackets(7))
RecvPingReq == Process({InPkt(12)})
RecvDisconnect == Process({InPkt(14)})
RecvConnectAgain == Process({InPkt(1)})
RecvUnknown == Process({InPkt(15)})

\* ------------------------------------- the bytes of PUBLISH and SUBSCRIBE
\* n calls of client.read() on a socket that holds the bytes s and gets no
\* more: read() returns -1 on an empty socket, 255 as a byte.
Take(s, n) ==
    [ bytes |-> [k \in 1..n |-> IF k <= Len(s) THEN s[k] ELSE 255],
      rest |-> SubSeq(s, n + 1, Len(s)) ]

\* The bytes of a PUBLISH and of a SUBSCRIBE with one pair, in MQTT 3.1.1
\* layout, the remaining length in one byte.
EncodePublish(pkt) ==
    LET chars(x) == [ k \in 1..Len(x) |-> CharCode[x[k]] ]
        body == << Len(pkt.topic) \div 256, Len(pkt.topic) % 256 >> \o chars(pkt.topic)
                \o (IF pkt.qos > 0 THEN << pkt.pid \div 256, pkt.pid % 256 >> ELSE <<>>)
                \o chars(pkt.payload)
    IN  << 48 + (IF pkt.dup THEN 8 ELSE 0) + 2 * pkt.qos + (IF pkt.retain THEN 1 ELSE 0),
           Len(body) >> \o body

EncodeSubscribe(pkt) ==
    LET chars(x) == [ k \in 1..Len(x) |-> CharCode[x[k]] ]
        body == << pkt.pid \div 256, pkt.pid % 256,
                   Len(pkt.topic) \div 256, Len(pkt.topic) % 256 >> \o chars(pkt.topic)
                \o << pkt.reqQos >>
    IN  << 130, Len(body) >> \o body

\* What a peer sends in one piece: a whole PUBLISH or SUBSCRIBE ("none"), one
\* whose last cut bytes never arrive ("cut"), or one whose topic length field
\* says more than the packet holds ("long": one more than the bytes that
\* follow the field).
Frames ==
    LET whole == { EncodePublish(pkt) :
                     pkt \in { q \in Publishes({0}, { <<"x">> }) : ~q.retain } }
                 \cup { EncodeSubscribe([InPkt(8) EXCEPT !.pid = 1, !.topic = f]) :
                          f \in { <<"a">>, <<"#">> } }
        at(b) == IF b[1] \div 16 = 3 THEN 3 ELSE 5
    IN  { [ bytes |-> b, damage |-> "none" ] : b \in whole }
        \cup { [ bytes |-> SubSeq(b, 1, Len(b) - cut), damage |-> "cut" ] :
                 b \in whole, cut \in 1..MaxCut }
        \cup { [ bytes |-> [b EXCEPT ![at(b) + 1] = Len(b) - at(b)],
                 damage |-> "long" ] : b \in whole }

\* processMQTTClient from `if (client.available() >= 2)` on, and the reads of
\* the handler it calls, on a socket that holds buf and gets no more within
\* the time-out of waitForBytes: whether the handler gave up waiting, the
\* packet it read, and the bytes it left in the socket.
readPacket(buf) ==
    LET h == buf[1]
        len == buf[2]
        s == SubSeq(buf, 3, Len(buf))
        packetType == h \div 16
        short == [ pkt |-> InPkt(packetType), rest |-> s, timeout |-> TRUE ]
        id == Take(s, 2)
        packetId == id.bytes[1] * 256 + id.bytes[2]
    IN  IF packetType = 3
        THEN LET qos == (h \div 2) % 4
                 tl == Take(s, 2)
                 topicLen == tl.bytes[1] * 256 + tl.bytes[2]
                 tp == Take(tl.rest, topicLen)
                 pid == IF qos > 0 THEN Take(tp.rest, 2)
                        ELSE [ bytes |-> << 0, 0 >>, rest |-> tp.rest ]
                 payloadLen == len - (2 + topicLen) - (IF qos > 0 THEN 2 ELSE 0)
                 pl == Take(pid.rest, IF payloadLen > 0 THEN payloadLen ELSE 0)
             IN  IF Len(s) < len THEN short
                 ELSE [ pkt |-> [ InPkt(3) EXCEPT
                                    !.qos = qos, !.retain = h % 2 = 1,
                                    !.dup = (h \div 8) % 2 = 1,
                                    !.pid = pid.bytes[1] * 256 + pid.bytes[2],
                                    !.topic = CString(tp.bytes),
                                    !.payload = CString(pl.bytes) ],
                        rest |-> pl.rest,
                        timeout |-> FALSE ]
        ELSE IF packetType = 8
        THEN LET tl == Take(id.rest, 2)
                 topicLen == tl.bytes[1] * 256 + tl.bytes[2]
                 tp == Take(tl.rest, topicLen)
                 requestedQoS == Take(tp.rest, 1)
             IN  IF Len(s) < len THEN short
                 ELSE [ pkt |-> [ InPkt(8) EXCEPT
                                    !.pid = packetId, !.topic = CString(tp.bytes),
                                    !.reqQos = requestedQoS.bytes[1],
                                    !.tuples = << [ filter |-> CString(tp.bytes),
                                                    qos |-> requestedQoS.bytes[1] ] >> ],
                        rest |-> requestedQoS.rest,
                        timeout |-> FALSE ]
        ELSE IF packetType \in 4..7
        THEN IF Len(s) < len THEN short
             ELSE [ pkt |-> [ InPkt(packetType) EXCEPT !.pid = packetId ],
                    rest |-> id.rest, timeout |-> FALSE ]
        ELSE IF packetType \in {12, 14}
        THEN [ pkt |-> InPkt(packetType), rest |-> s, timeout |-> FALSE ]
        ELSE [ pkt |-> InPkt(packetType), rest |-> Take(s, len).rest, timeout |-> FALSE ]

\* loop(), an established session: processMQTTClient(connectedMQTTClients[i])
\* on the bytes of the socket.  The peer has sent one of frames, or nothing; a
\* peer whose last frame was not read to its end sends nothing more.  A
\* handler that gives up waiting returns at once, which leaves the broker
\* where a pass without data leaves it.
ProcessBytes(frames) ==
    /\ Established
    /\ ~KeepAliveExpired(connectedMQTTClients[loopIdx])
    /\ \E f \in frames \cup { [ bytes |-> <<>>, damage |-> "none" ] },
          r \in Resolutions(activeSubscriptions, Len(connectedMQTTClients)) :
         LET i == loopIdx
             cs == connectedMQTTClients[i]
             buf == cs.rx \o f.bytes
         IN  /\ cs.rx # <<>> => f.bytes = <<>>
             /\ \E in \in { IF Len(buf) >= 2 THEN readPacket(buf)
                            ELSE [ pkt |-> NoData, rest |-> buf, timeout |-> FALSE ] } :
                  \E W \in { processMQTTClient(Here, i, IF in.timeout THEN NoData ELSE in.pkt,
                                               r) } :
                    LET read == ~W.returned /\ in.pkt.avail
                        unread == IF W.returned THEN buf ELSE in.rest
                        W1 == [W EXCEPT !.cl[i].rx = unread]
                    IN  /\ (in.pkt.type = 8 /\ ~in.timeout) =>
                              Len(activeSubscriptions) < MaxSubs
                        /\ Commit(IF read
                                  THEN [W1 EXCEPT !.cl[i] = Received(cs, @, in.pkt,
                                                                     Len(W.fwd), W.out)]
                                  ELSE W1,
                                  [ Event(IF W.returned THEN "retries"
                                          ELSE IF in.timeout THEN "timeout"
                                          ELSE OpName(in.pkt),
                                          cs, in.pkt, W.fwd) EXCEPT
                                      !.frame = f.damage, !.unread = unread ])

\* processMQTTClient, the keep-alive branch
KeepAliveTimeout ==
    /\ Established
    /\ KeepAliveExpired(connectedMQTTClients[loopIdx])
    /\ \E r \in Resolutions(activeSubscriptions, Len(connectedMQTTClients)) :
         \E W \in { processMQTTClient(Here, loopIdx, NoData, r) } :
           Commit(W, Event("keepalive", connectedMQTTClients[loopIdx], NoData, W.fwd))

\* loop(), a slot whose client is no longer connected: its index entries are
\* erased by address, then the slot is erased and the later slots move down.
\* An entry pointing into a freed buffer compares equal to the slot's address
\* only if the allocator handed the same block out again (alias).
RemoveAt(seq, i) == SubSeq(seq, 1, i - 1) \o SubSeq(seq, i + 1, Len(seq))

RECURSIVE Keep(_, _)
Keep(seq, drop) ==
    IF seq = <<>> THEN <<>>
    ELSE IF drop[1] THEN Keep(Tail(seq), Tail(drop))
    ELSE << Head(seq) >> \o Keep(Tail(seq), Tail(drop))

reap(W, i, alias) ==
    LET same(sub) == \/ sub.clientState = AddrOf(i)
                     \/ alias /\ sub.clientState.buf # vecBuf /\ sub.clientState.idx = i
        drop == [k \in 1..Len(W.subs) |-> same(W.subs[k])]
    IN  [W EXCEPT !.subs = Keep(W.subs, drop), !.cl = RemoveAt(W.cl, i)]

Reap ==
    /\ loopIdx >= 1
    /\ ~connectedMQTTClients[loopIdx].connected
    /\ \E alias \in BOOLEAN :
         /\ alias => \E k \in 1..Len(activeSubscriptions) :
                         /\ activeSubscriptions[k].clientState.buf # vecBuf
                         /\ activeSubscriptions[k].clientState.idx = loopIdx
         /\ Commit(reap(Here, loopIdx, alias),
                   Event("reap", connectedMQTTClients[loopIdx],
                         [NoData EXCEPT !.topic = connectedMQTTClients[loopIdx].willTopic,
                                        !.payload = connectedMQTTClients[loopIdx].willMessage],
                         <<>>))

\* ----------------------------------------------------------- the environment
\* The peer closes the TCP connection (or it is lost).
PeerClose ==
    \E j \in 1..Len(connectedMQTTClients) :
        /\ connectedMQTTClients[j].connected
        /\ connectedMQTTClients' = [connectedMQTTClients EXCEPT ![j] = Close(@, "peer")]
        /\ sent' = <<>>
        /\ ev' = [NoEvent EXCEPT !.op = "peerclose", !.sid = connectedMQTTClients[j].sid]
        /\ UNCHANGED << activeSubscriptions, retainedMessages, vecBuf, vecCap, now,
                        loopIdx, nextSid, nread, pendingQoS2 >>

\* millis() advances past the QoS time-out between two loop() calls, while a
\* message is in flight.
TimeoutTick ==
    /\ loopIdx = 0
    /\ \E j \in 1..Len(connectedMQTTClients) :
          connectedMQTTClients[j].outgoingQoSMessages # EmptyMap
    /\ now + QoS_TIMEOUT_MS + TickMs <= MaxTimeouts * (QoS_TIMEOUT_MS + TickMs)
    /\ now' = now + QoS_TIMEOUT_MS + TickMs
    /\ sent' = <<>>
    /\ ev' = [NoEvent EXCEPT !.op = "tick"]
    /\ UNCHANGED << connectedMQTTClients, activeSubscriptions, retainedMessages,
                    vecBuf, vecCap, loopIdx, nextSid, nread, pendingQoS2 >>

\* millis() advances; the passes of one loop() call run within one clock step.
Tick ==
    /\ loopIdx = 0
    /\ now + TickMs <= MaxTicks * TickMs
    /\ now' = now + TickMs
    /\ sent' = <<>>
    /\ ev' = [NoEvent EXCEPT !.op = "tick"]
    /\ UNCHANGED << connectedMQTTClients, activeSubscriptions, retainedMessages,
                    vecBuf, vecCap, loopIdx, nextSid, nread, pendingQoS2 >>

Init ==
    /\ connectedMQTTClients = <<>>
    /\ activeSubscriptions = <<>>
    /\ retainedMessages = [t \in Topics |-> NoPayload]
    /\ vecBuf = 0
    /\ vecCap = 0
    /\ now = 0
    /\ loopIdx = 0
    /\ nextSid = 1
    /\ sent = <<>>
    /\ ev = NoEvent
    /\ nread = [publish |-> 0, pubrel |-> 0]
    /\ pendingQoS2 = EmptyMap

\* A broker that has been running: one session with CONNACK and a subscription
\* to "a" at QoS 1 or 2 in a vector of capacity 2; its packet id counter at 1
\* and nothing in flight, or at the last value before the wrap and nothing or
\* the message with packet id 1 still in flight.
InitAged ==
    /\ vecBuf = 1
    /\ vecCap = 2
    /\ now = 0
    /\ loopIdx = 0
    /\ nextSid = 2
    /\ sent = <<>>
    /\ ev = NoEvent
    /\ nread = [publish |-> 0, pubrel |-> 0]
    /\ pendingQoS2 = EmptyMap
    /\ retainedMessages = [t \in Topics |-> NoPayload]
    /\ \E g \in {1, 2}, n \in {1, Pow16 - 1} :
        \E inFlight \in IF n = 1 THEN { {} } ELSE SUBSET {1} :
          LET outMsg == [ topic |-> <<"a">>, payload |-> <<"x">>, qos |-> g,
                          retain |-> FALSE, packetId |-> 1, timestampSent |-> 0,
                          retryCount |-> 0, state |-> 0 ]
          IN  /\ connectedMQTTClients =
                    << [ NewState(1, 0) EXCEPT
                           !.clientId = <<"c">>, !.connectedACKSent = TRUE,
                           !.subscribedTopics = << <<"a">> >>,
                           !.nextOutgoingPacketId = n,
                           !.outgoingQoSMessages = [p \in inFlight |-> outMsg] ] >>
              /\ activeSubscriptions =
                    << [ qos |-> g, clientState |-> [idx |-> 1, buf |-> 1],
                         topicFilter |-> <<"a">>, owner |-> 1 ] >>

\* The running broker with the packet id counter of its session at 1.
InitRetry ==
    /\ InitAged
    /\ connectedMQTTClients[1].nextOutgoingPacketId = 1

\* ------------------------------------------------------------ specifications
\* Routing and the inbound QoS 2 handshake: sessions without keep-alive and
\* will, the clock at rest; sessions leave by DISCONNECT.
RoutingConnect == Connect({c \in ConnectPackets : c.keepAlive = 0 /\ ~c.willFlag})
RoutingPublish == Process({p \in Publishes(QoSLevels, { <<"x">> }) : ~p.retain})
RoutingSubscribe ==
    /\ Len(activeSubscriptions) < MaxSubs
    /\ Process({s \in SubscribePackets : s.reqQos \in {0, 1}})

Next ==
    \/ LoopAccept
    \/ LoopNoAccept
    \/ AwaitData
    \/ RoutingConnect
    \/ RecvNothing
    \/ RoutingPublish
    \/ RoutingSubscribe
    \/ RecvPubRel
    \/ RecvDisconnect
    \/ Reap

Spec == Init /\ [][Next]_vars

\* The will: sessions with and without a will, peers that go away with and
\* without DISCONNECT or are dropped by the broker, the clock at rest.
WillConnect == Connect({c \in ConnectPackets : c.keepAlive = 0})
WillSubscribe ==
    /\ Len(activeSubscriptions) < MaxSubs
    /\ Process({s \in SubscribePackets : s.reqQos = 0})

NextWill ==
    \/ LoopAccept
    \/ LoopNoAccept
    \/ AwaitData
    \/ WillConnect
    \/ RecvNothing
    \/ WillSubscribe
    \/ RecvDisconnect
    \/ RecvConnectAgain
    \/ RecvUnknown
    \/ RejectFirstPacket
    \/ Reap
    \/ PeerClose

SpecWill == Init /\ [][NextWill]_vars

\* Keep-alive: sessions with and without keep-alive and will, QoS 0 traffic
\* and PINGREQ, a running clock.
KeepAliveConnect == Connect(ConnectPackets)
KeepAlivePublish == Process({p \in Publishes({0}, { <<"x">> }) : ~p.retain})
KeepAliveSubscribe ==
    /\ Len(activeSubscriptions) < MaxSubs
    /\ Process({s \in SubscribePackets : s.reqQos = 0 /\ s.topic = <<"a">>})

NextKeepAlive ==
    \/ LoopAccept
    \/ LoopNoAccept
    \/ AwaitData
    \/ KeepAliveConnect
    \/ RecvNothing
    \/ KeepAlivePublish
    \/ KeepAliveSubscribe
    \/ RecvPingReq
    \/ KeepAliveTimeout
    \/ Reap
    \/ Tick

SpecKeepAlive == Init /\ [][NextKeepAlive]_vars

\* The retained store: PUBLISH packets of QoS 0 and 1 with and without RETAIN,
\* with and without payload, and SUBSCRIBE packets of every requested QoS.
NextRetained ==
    \/ LoopAccept
    \/ LoopNoAccept
    \/ AwaitData
    \/ Connect({c \in ConnectPackets : c.keepAlive = 0 /\ ~c.willFlag})
    \/ RecvNothing
    \/ Process({p \in Publishes({0, 1}, Payloads) : ~p.dup})
    \/ RecvSubscribe

SpecRetained == Init /\ [][NextRetained]_vars


\* The writers of the retained store: PUBLISH packets of every QoS with and
\* without RETAIN and payload, PUBREL, and the will at a keep-alive close.
NextStore ==
    \/ LoopAccept
    \/ LoopNoAccept
    \/ AwaitData
    \/ Connect({c \in ConnectPackets : c.keepAlive = 1})
    \/ RecvNothing
    \/ Process({p \in Publishes(QoSLevels, Payloads) : ~p.dup})
    \/ RecvPubRel
    \/ KeepAliveTimeout
    \/ Tick

SpecStore == Init /\ [][NextStore]_vars

\* SUBSCRIBE packets with one and with several topic filters.  The bytes of a
\* SUBSCRIBE that handleSubscribe leaves in the socket are read as the next
\* packet of the session (RecvUnknown).
NextSubscribe ==
    \/ LoopAccept
    \/ LoopNoAccept
    \/ AwaitData
    \/ Connect({c \in ConnectPackets : c.keepAlive = 0 /\ ~c.willFlag})
    \/ RecvNothing
    \/ (Len(activeSubscriptions) < MaxSubs /\ Process(SubscribeLists))
    \/ RecvUnknown
    \/ Reap

SpecSubscribe == Init /\ [][NextSubscribe]_vars

\* The first packet of a connection: CONNECT packets as bytes, other first
\* packets, and what the session does afterwards.
NextConnect ==
    \/ LoopAccept
    \/ LoopNoAccept
    \/ AwaitData
    \/ ConnectBytes
    \/ RejectFirstPacket
    \/ RecvNothing
    \/ Process({p \in Publishes({0}, { <<"x">> }) : p.retain})
    \/ (Len(activeSubscriptions) < MaxSubs /\ Process({s \in SubscribePackets : s.reqQos = 0}))
    \/ RecvDisconnect
    \/ Reap

SpecConnect == Init /\ [][NextConnect]_vars

\* The packet id counter around its wrap: QoS 0 PUBLISH packets forwarded at
\* the QoS of the subscription, QoS 2 PUBLISH packets and their PUBREL, and
\* the acknowledgements of the subscriber.
NextAged ==
    \/ LoopAccept
    \/ LoopNoAccept
    \/ AwaitData
    \/ Connect({c \in ConnectPackets : c.keepAlive = 0 /\ ~c.willFlag})
    \/ RecvNothing
    \/ Process({p \in Publishes({0, 2}, { <<"x">> }) : ~p.retain /\ ~p.dup})
    \/ Process({ [ InPkt(t) EXCEPT !.pid = p ] : t \in 4..7, p \in {1, Pow16 - 1} })

SpecAged == InitAged /\ [][NextAged]_vars

\* Retransmission: a second session with or without a will that subscribes at
\* QoS 1, QoS 0 PUBLISH packets, the acknowledgements of the subscribers or
\* their silence, and a clock that runs past the QoS time-out.
NextRetry ==
    \/ LoopAccept
    \/ LoopNoAccept
    \/ AwaitData
    \/ Connect({c \in ConnectPackets : c.keepAlive = 0 /\ c.willTopic = <<"a">>})
    \/ RecvNothing
    \/ (Len(activeSubscriptions) < MaxSubs
          /\ Process({s \in SubscribePackets : s.topic = <<"a">> /\ s.reqQos = 1}))
    \/ (nread.publish = 0 /\ Process({p \in Publishes({0}, { <<"x">> }) : ~p.retain}))
    \/ RecvPubAck
    \/ RecvPubRec
    \/ RecvPubComp
    \/ Reap
    \/ TimeoutTick

SpecRetry == InitRetry /\ [][NextRetry]_vars

\* Frames as bytes: whole, truncated and with an oversized topic length, and
\* what the session does with the bytes a handler left unread.
NextFrame ==
    \/ LoopAccept
    \/ LoopNoAccept
    \/ AwaitData
    \/ Connect({c \in ConnectPackets : c.keepAlive = 0 /\ ~c.willFlag})
    \/ ProcessBytes(Frames)
    \/ Reap

SpecFrame == Init /\ [][NextFrame]_vars

\* What goes wrong on one session while another one is there: damaged frames,
\* unknown packet types, acknowledgements nobody waits for, messages that are
\* never acknowledged, an expired keep-alive, DISCONNECT and a lost
\* connection.  A peer whose frame was not read to its end sends nothing more.
NextErrors ==
    \/ LoopAccept
    \/ LoopNoAccept
    \/ AwaitData
    \/ Connect({c \in ConnectPackets : ~c.willFlag})
    \/ ProcessBytes({f \in Frames : /\ f.bytes[1] = 48
                                    /\ nread.publish = 0 \/ f.damage = "cut"})
    \/ (Established /\ connectedMQTTClients[loopIdx].rx = <<>> /\ RecvUnknown)
    \/ (Established /\ connectedMQTTClients[loopIdx].rx = <<>> /\ RecvDisconnect)
    \/ (Established /\ connectedMQTTClients[loopIdx].rx = <<>> /\ RecvPubAck)
    \/ (Established /\ connectedMQTTClients[loopIdx].rx = <<>> /\ RecvPubRec)
    \/ (Established /\ connectedMQTTClients[loopIdx].rx = <<>> /\ RecvPubComp)
    \/ KeepAliveTimeout
    \/ PeerClose
    \/ Reap
    \/ TimeoutTick

SpecErrors == InitRetry /\ [][NextErrors]_vars

\* The inbound QoS 2 handshake with everything a PUBLISH can carry: QoS 2
\* PUBLISH packets with and without RETAIN, DUP and payload, their PUBREL,
\* and subscribers at QoS 0.
SpecInbound ==
    Init /\ [][ \/ LoopAccept
                \/ LoopNoAccept
                \/ AwaitData
                \/ Connect({c \in ConnectPackets : c.keepAlive = 0 /\ ~c.willFlag})
                \/ RecvNothing
                \/ Process(Publishes({2}, Payloads))
                \/ RecvPubRel
                \/ ( /\ Len(activeSubscriptions) < MaxSubs
                     /\ Process({s \in SubscribePackets :
                                   s.topic = <<"a">> /\ s.reqQos = 0}) ) ]_vars

\* The phases of the QoS exchanges over time: the running broker's session,
\* subscribed at QoS 1 or 2, its own PUBLISH packets at QoS 0 and 2, all four
\* acknowledgements with the packet id in flight, its silence, and a clock
\* that runs past the QoS time-out.
SpecPhases ==
    InitAged /\ [][ \/ LoopNoAccept
                    \/ RecvNothing
                    \/ Process({p \in Publishes({0, 2}, { <<"x">> }) :
                                  ~p.retain /\ ~p.dup})
                    \/ Process({ [ InPkt(t) EXCEPT !.pid = 1 ] : t \in 4..7 })
                    \/ TimeoutTick ]_vars

\* The bytes of a SUBSCRIBE with the pairs of tuples, in MQTT 3.1.1 layout.
RECURSIVE EncodePairs(_)
EncodePairs(tuples) ==
    IF tuples = <<>> THEN <<>>
    ELSE LET t == Head(tuples)
         IN  << Len(t.filter) \div 256, Len(t.filter) % 256 >>
             \o [ k \in 1..Len(t.filter) |-> CharCode[t.filter[k]] ]
             \o << t.qos >> \o EncodePairs(Tail(tuples))

\* What a peer that keeps to the protocol sends in one piece: a PUBLISH at
\* QoS 0 or 2, a SUBSCRIBE with one or two pairs, a PUBACK, a PUBREL, a
\* PINGREQ.
StreamFrames ==
    LET subscribe(tuples) ==
            << 130, 2 + Len(EncodePairs(tuples)), 0, 1 >> \o EncodePairs(tuples)
        pair(f) == [ filter |-> f, qos |-> 0 ]
        whole == { EncodePublish(pkt) :
                     pkt \in { q \in Publishes({0, 2}, { <<"x">> }) : ~q.retain /\ ~q.dup } }
                 \cup { subscribe(<< pair(<<"a">>) >>),
                        subscribe(<< pair(<<"a">>), pair(<<"#">>) >>),
                        << 64, 2, 0, 1 >>, << 98, 2, 0, 1 >>, << 192, 0 >> }
    IN  { [ bytes |-> b, damage |-> "none" ] : b \in whole }

\* Well-formed frames as bytes, each arriving whole.
SpecStream ==
    Init /\ [][ \/ LoopAccept
                \/ LoopNoAccept
                \/ AwaitData
                \/ Connect({c \in ConnectPackets : c.keepAlive = 0 /\ ~c.willFlag})
                \/ ProcessBytes(StreamFrames)
                \/ Reap ]_vars

\* millis() advances past the QoS time-out while a connected session has a
\* message in flight.  loop() runs many times within one time-out period, so
\* a pass has seen every entry that timed out before the next one times out.
PhaseTick ==
    LET inFlight == { j \in 1..Len(connectedMQTTClients) :
                        /\ connectedMQTTClients[j].connected
                        /\ connectedMQTTClients[j].outgoingQoSMessages # EmptyMap }
    IN  /\ loopIdx = 0
        /\ inFlight # {}
        /\ \A j \in inFlight :
              \A p \in DOMAIN connectedMQTTClients[j].outgoingQoSMessages :
                 Elapsed(connectedMQTTClients[j].outgoingQoSMessages[p].timestampSent)
                    <= QoS_TIMEOUT_MS
        /\ now + QoS_TIMEOUT_MS + TickMs <= MaxPhaseTimeouts * (QoS_TIMEOUT_MS + TickMs)
        /\ now' = now + QoS_TIMEOUT_MS + TickMs
        /\ sent' = <<>>
        /\ ev' = [NoEvent EXCEPT !.op = "tick"]
        /\ UNCHANGED << connectedMQTTClients, activeSubscriptions, retainedMessages,
                        vecBuf, vecCap, loopIdx, nextSid, nread, pendingQoS2 >>

\* What the subscriber of the running broker sends: nothing, one QoS 0
\* PUBLISH that comes back to it at the QoS of its subscription, or any of the
\* four acknowledgements with the packet id of that message.
PhasePass ==
    \/ Process({NoData} \cup { [ InPkt(t) EXCEPT !.pid = 1 ] : t \in 4..7 })
    \/ ( /\ nread.publish = 0
         /\ Process({p \in Publishes({0}, { <<"x">> }) : ~p.retain}) )

\* The exchange of an outbound message to its end: loop() is called
\* again and again, every call passes over every session and reaps the closed
\* ones, and time goes on: the clock, which moves between two calls of loop(),
\* moves again and again.
SpecPhasesFair ==
    /\ InitRetry
    /\ [][LoopNoAccept \/ PhasePass \/ Reap \/ PhaseTick]_vars
    /\ WF_vars(LoopNoAccept)
    /\ WF_vars(PhasePass)
    /\ WF_vars(Reap)
    /\ SF_vars(PhaseTick)

\* millis() between two calls of loop(), in a width of MaxTicks + 1 steps: it
\* advances for ever and wraps, as the unsigned long of the program does.
MillisTick ==
    /\ loopIdx = 0
    /\ now' = (now + TickMs) % ((MaxTicks + 1) * TickMs)
    /\ sent' = <<>>
    /\ ev' = [NoEvent EXCEPT !.op = "tick"]
    /\ UNCHANGED << connectedMQTTClients, activeSubscriptions, retainedMessages,
                    vecBuf, vecCap, loopIdx, nextSid, nread, pendingQoS2 >>

\* One pass of the for loop of loop() over the slot at loopIdx: a session
\* without CONNACK whose peer has sent nothing, a CONNECT or something else,
\* an established session that sends nothing or DISCONNECT, or a closed one.
SlotPass ==
    \/ AwaitData
    \/ Connect({c \in ConnectPackets : c.keepAlive = 0 /\ ~c.willFlag})
    \/ RejectFirstPacket
    \/ RecvNothing
    \/ RecvDisconnect
    \/ Reap

\* Connections from accept to CONNACK or to their end: loop() is called again
\* and again and passes over every slot each time, and time goes on.  What a
\* peer sends, and whether it closes its connection, is up to the peer.
SpecAwaitFair ==
    /\ Init
    /\ [][LoopAccept \/ LoopNoAccept \/ SlotPass \/ PeerClose \/ MillisTick]_vars
    /\ WF_vars(LoopAccept \/ LoopNoAccept)
    /\ WF_vars(SlotPass)
    /\ SF_vars(MillisTick)

\* ------------------------------------------------------- the broker of part_000
\* The second broker of the repository keeps the same three containers and a
\* global map pendingQoS2; it has no per-session QoS state, no keep-alive
\* check, and its loop() walks the sessions upwards.  Names that both brokers
\* define carry a B here.
NewStateB(sid, c) ==
    [ sid |-> sid,
      closedBy |-> "open",
      connected |-> TRUE,
      clientId |-> c.clientId,
      lastSeen |-> now,
      willTopic |-> IF c.willFlag THEN c.willTopic ELSE <<>>,
      willMessage |-> IF c.willFlag THEN c.willMessage ELSE <<>>,
      hasLWT |-> c.willFlag,
      subscribedTopics |-> <<>> ]

WorldB(cl, subs, ret, pend) ==
    [ cl |-> cl, subs |-> subs, ret |-> ret, out |-> <<>>, fwd |-> <<>>,
      returned |-> FALSE, pend |-> pend ]

\* String(packetId)
RECURSIVE Decimal(_)
Decimal(n) ==
    LET digit == << "0", "1", "2", "3", "4", "5", "6", "7", "8", "9" >>
    IN  IF n < 10 THEN << digit[n + 1] >>
        ELSE Decimal(n \div 10) \o << digit[(n % 10) + 1] >>

\* clientState.clientId + "-" + String(packetId)
PendingKey(cs, packetId) == cs.clientId \o << "-" >> \o Decimal(packetId)

sendPublishB(W, j, topic, payload, qos, retain, k, org) ==
    LET pkt == [ Pkt(W.cl[j].sid, "PUBLISH", 0) EXCEPT
                    !.topic = topic, !.payload = payload, !.qos = qos, !.retain = retain,
                    !.sub = k, !.srcKind = org.kind, !.srcSid = org.sid,
                    !.srcPid = org.pid, !.srcQos = org.q ]
    IN  IF ~W.cl[j].connected THEN W ELSE [W EXCEPT !.out = Append(@, pkt)]

RECURSIVE distributeFrom(_, _, _, _, _, _, _)
distributeFrom(W, k, r, topic, payload, retain, org) ==
    IF k > Len(W.subs) THEN W
    ELSE LET sub == W.subs[k]
             hit == r[k] # 0 /\ W.cl[r[k]].connected /\ topicMatches(topic, sub.topicFilter)
             W1 == IF hit THEN sendPublishB(W, r[k], topic, payload, 0, retain, k, org)
                   ELSE W
         IN  distributeFrom(W1, k + 1, r, topic, payload, retain, org)

distributeMessage(W, r, topic, payload, retain, org) ==
    LET ret1 == IF retain
                THEN [W.ret EXCEPT ![topic] =
                         IF Len(payload) = 0 THEN NoPayload ELSE payload]
                ELSE W.ret
    IN  distributeFrom([W EXCEPT !.ret = ret1,
                                 !.fwd = Append(@, [ topic |-> topic, payload |-> payload,
                                                     org |-> org ])],
                       1, r, topic, payload, retain, org)

handlePublishB(W, i, pkt, r) ==
    LET cs == W.cl[i]
        key == PendingKey(cs, pkt.pid)
        org == Origin("pub", cs.sid, pkt.pid, pkt.qos)
        W1 == [W EXCEPT !.out = Append(@, Pkt(cs.sid, "PUBREC", pkt.pid))]
        W2 == distributeMessage(W, r, pkt.topic, pkt.payload, pkt.retain, org)
    IN  IF pkt.qos = 2
        THEN IF ~pkt.dup \/ key \notin DOMAIN W.pend
             THEN [W1 EXCEPT !.pend = MapPut(@, key, [ topic |-> pkt.topic,
                                                       payload |-> pkt.payload,
                                                       org |-> org ])]
             ELSE W1
        ELSE IF pkt.qos = 1
        THEN [W2 EXCEPT !.out = Append(@, Pkt(cs.sid, "PUBACK", pkt.pid))]
        ELSE W2

handlePubRelB(W, i, pkt, r) ==
    LET cs == W.cl[i]
        key == PendingKey(cs, pkt.pid)
        W1 == [W EXCEPT !.out = Append(@, Pkt(cs.sid, "PUBCOMP", pkt.pid))]
    IN  IF key \in DOMAIN W.pend
        THEN [ distributeMessage(W1, r, W.pend[key].topic, W.pend[key].payload, FALSE,
                                 W.pend[key].org)
               EXCEPT !.pend = MapDel(@, key) ]
        ELSE W1

\* the while loop of handleSubscribe over the topic filters of the packet
RECURSIVE subscribeFrom(_, _, _, _)
subscribeFrom(W, i, filters, n) ==
    IF n > Len(filters) THEN W
    ELSE LET newSub == [ qos |-> 0, clientState |-> AddrOf(i), topicFilter |-> filters[n],
                         owner |-> W.cl[i].sid ]
             W1 == [W EXCEPT !.subs = Append(@, newSub),
                             !.cl[i].subscribedTopics = Append(@, filters[n])]
             replay[k \in 0..Len(TopicSeq)] ==
                 IF k = 0 THEN W1
                 ELSE IF /\ W1.ret[TopicSeq[k]] # NoPayload
                         /\ topicMatches(TopicSeq[k], filters[n])
                      THEN sendPublishB(replay[k - 1], i, TopicSeq[k], W1.ret[TopicSeq[k]],
                                        0, TRUE, 0, Origin("retained", 0, 0, 0))
                      ELSE replay[k - 1]
         IN  subscribeFrom(replay[Len(TopicSeq)], i, filters, n + 1)

handleSubscribeB(W, i, pkt) ==
    [ subscribeFrom(W, i, pkt.filters, 1) EXCEPT
        !.out = Append(@, [ Pkt(W.cl[i].sid, "SUBACK", pkt.pid) EXCEPT !.codes = << 0 >> ]) ]

handlePingReqB(W, i) == [W EXCEPT !.out = Append(@, Pkt(W.cl[i].sid, "PINGRESP", 0))]

handleDisconnect(W, i) == [W EXCEPT !.cl[i] = Close(@, "disconnect")]

\* loop(), a connected session with data: lastSeen, then switch (packetType)
dispatchB(W, i, pkt, r) ==
    LET W0 == [W EXCEPT !.cl[i].lastSeen = now]
    IN  CASE pkt.type = 3  -> handlePublishB(W0, i, pkt, r)
          [] pkt.type = 8  -> handleSubscribeB(W0, i, pkt)
          [] pkt.type = 12 -> handlePingReqB(W0, i)
          [] pkt.type = 14 -> handleDisconnect(W0, i)
          [] pkt.type \in {4, 5, 7} -> W0
          [] pkt.type = 6  -> handlePubRelB(W0, i, pkt, r)
          [] OTHER         -> [W0 EXCEPT !.cl[i] = Stop(@)]

\* removeClient(index): the will, the entries of the index whose session reads
\* as having this client id, the slot
removeClient(W, i, r) ==
    LET cs == W.cl[i]
        W1 == IF cs.hasLWT
              THEN distributeMessage(W, r, cs.willTopic, cs.willMessage, FALSE,
                                     Origin("will", cs.sid, 0, 0))
              ELSE W
        drop == [k \in 1..Len(W.subs) |->
                    r[k] # 0 /\ W.cl[r[k]].clientId = cs.clientId]
    IN  [W1 EXCEPT !.subs = Keep(W.subs, drop), !.cl = RemoveAt(W.cl, i)]

handleConnect(W, c) ==
    [W EXCEPT !.cl = Append(@, NewStateB(nextSid, c)),
              !.out = Append(@, Pkt(nextSid, "CONNACK", 0))]

EventB(op, cs, pkt, fwd) ==
    [ NoEvent EXCEPT
        !.op = op, !.sid = cs.sid, !.pid = pkt.pid, !.qos = pkt.qos, !.dup = pkt.dup,
        !.retain = pkt.retain,
        !.topic = IF fwd # <<>> THEN fwd[1].topic ELSE pkt.topic,
        !.payload = IF fwd # <<>> THEN fwd[1].payload ELSE pkt.payload,
        !.hadWill = cs.hasLWT, !.acked = TRUE, !.closedBy = cs.closedBy,
        !.passes = Len(fwd), !.tuples = pkt.tuples ]

HereB == WorldB(connectedMQTTClients, activeSubscriptions, retainedMessages, pendingQoS2)

CommitB(Wx, e, idx) ==
    \E W \in { Wx } :
    /\ connectedMQTTClients' = W.cl
    /\ activeSubscriptions' = W.subs
    /\ retainedMessages' = W.ret
    /\ pendingQoS2' = W.pend
    /\ sent' = W.out
    /\ ev' = e
    /\ nread' = Count(nread, e.op)
    /\ WithinBudget(nread')
    /\ loopIdx' = IF idx <= Len(W.cl) THEN idx ELSE 0
    /\ UNCHANGED now

ClientIds == { <<"c">>, <<"d">> }

ConnectPacketsB ==
    { [ keepAlive |-> 0, clientId |-> c, willTopic |-> wt, willMessage |-> wm,
        willFlag |-> wf ] :
        c \in ClientIds, wf \in BOOLEAN, wt \in Topics, wm \in { <<"w">> } }

\* The head of loop(): a new connection whose first packet is CONNECT
LoopConnectB ==
    /\ loopIdx = 0
    /\ nextSid <= MaxConn
    /\ \E c \in ConnectPacketsB :
         /\ LET full == Len(connectedMQTTClients) = vecCap
            IN  /\ vecBuf' = IF full THEN vecBuf + 1 ELSE vecBuf
                /\ vecCap' = IF full THEN (IF vecCap = 0 THEN 1 ELSE 2 * vecCap) ELSE vecCap
         /\ nextSid' = nextSid + 1
         /\ CommitB(handleConnect(HereB, c),
                    [NoEvent EXCEPT !.op = "connect", !.sid = nextSid, !.hadWill = c.willFlag,
                                    !.acked = TRUE],
                    1)

\* The head of loop(): a new connection whose first packet is no CONNECT
LoopRejectB ==
    /\ loopIdx = 0
    /\ nextSid <= MaxConn
    /\ nextSid' = nextSid + 1
    /\ CommitB(HereB, [NoEvent EXCEPT !.op = "not_connect", !.sid = nextSid], 1)
    /\ UNCHANGED << vecBuf, vecCap >>

\* The head of loop() with no new connection
LoopNoAcceptB ==
    /\ loopIdx = 0
    /\ connectedMQTTClients # <<>>
    /\ CommitB(HereB, [NoEvent EXCEPT !.op = "loop"], 1)
    /\ UNCHANGED << vecBuf, vecCap, nextSid >>

\* A SUBSCRIBE with its list of topic filters (the requested QoS is read and
\* dropped).
SubscribePacketsB ==
    { [ filters |-> fs ] @@
      [ InPkt(8) EXCEPT !.pid = p, !.topic = fs[1],
                        !.tuples = [ n \in 1..Len(fs) |-> [ filter |-> fs[n], qos |-> 0 ] ] ] :
        p \in PacketIds, fs \in { << f >> : f \in Filters } }

\* loop(), a connected session: the packet waiting in its socket, if any
ProcessB(pkts) ==
    /\ loopIdx >= 1
    /\ connectedMQTTClients[loopIdx].connected
    /\ \E pkt \in pkts, r \in Resolutions(activeSubscriptions, Len(connectedMQTTClients)) :
         LET cs == connectedMQTTClients[loopIdx]
         IN  \E W \in { IF pkt.avail THEN dispatchB(HereB, loopIdx, pkt, r) ELSE HereB } :
               CommitB(W, EventB(OpName(pkt), cs, pkt, W.fwd), loopIdx + 1)
    /\ UNCHANGED << vecBuf, vecCap, nextSid >>

RecvNothingB == ProcessB({NoData})
RecvPublishB == ProcessB({p \in Publishes({0, 1}, { <<"x">> }) : ~p.retain})
RecvSubscribeB ==
    /\ Len(activeSubscriptions) < MaxSubs
    /\ ProcessB(SubscribePacketsB)
RecvDisconnectB == ProcessB({InPkt(14)})

\* loop(), a session whose client is no longer connected: removeClient(i); i--
RemoveB ==
    /\ loopIdx >= 1
    /\ ~connectedMQTTClients[loopIdx].connected
    /\ \E r \in Resolutions(activeSubscriptions, Len(connectedMQTTClients)) :
         LET cs == connectedMQTTClients[loopIdx]
         IN  \E W \in { removeClient(HereB, loopIdx, r) } :
               CommitB(W, EventB("remove", cs,
                                 [NoData EXCEPT !.topic = cs.willTopic,
                                                !.payload = cs.willMessage],
                                 W.fwd),
                       loopIdx)
    /\ UNCHANGED << vecBuf, vecCap, nextSid >>

NextB ==
    \/ LoopConnectB
    \/ LoopRejectB
    \/ LoopNoAcceptB
    \/ RecvNothingB
    \/ RecvPublishB
    \/ RecvSubscribeB
    \/ RecvDisconnectB
    \/ RemoveB
    \/ PeerClose

SpecB == Init /\ [][NextB]_vars

\* The stored QoS 2 messages of part_000: sessions that subscribe, leave and
\* come back under the same client id, one QoS 2 PUBLISH and its PUBREL.
NextPending ==
    \/ LoopConnectB
    \/ LoopNoAcceptB
    \/ RecvNothingB
    \/ (nread.publish = 0 /\ ProcessB({p \in Publishes({2}, { <<"x">> }) : ~p.retain}))
    \/ ProcessB(AckPackets(6))
    \/ RecvSubscribeB
    \/ RecvDisconnectB
    \/ RemoveB

SpecPending == Init /\ [][NextPending]_vars

\* ------------------------------------------- the Remaining Length of part_000
\* sendPublish, the do-while loop that fills encodedRemLen: the bytes written
\* after the fixed header for the remaining length remLen.
RECURSIVE encodeRemainingLength(_)
encodeRemainingLength(remLen) ==
    LET digit == remLen % 128
        rest == remLen \div 128
    IN  IF rest > 0 THEN << digit + 128 >> \o encodeRemainingLength(rest)
        ELSE << digit >>

\* decodeRemainingLength(client), the socket holding the bytes s and no more
\* arriving within the time-out of waitForBytes: the value returned and the
\* bytes left in the socket.  pass[k] is the loop after its k-th pass; the
\* fourth pass always returns.
decodeRemainingLength(s) ==
    LET pass[k \in 0..4] ==
            IF k = 0 THEN [ ret |-> "none", read |-> 0, multiplier |-> 1, value |-> 0 ]
            ELSE LET p == pass[k - 1]
                     encodedByte == s[k]
                     value == p.value + (encodedByte % 128) * p.multiplier
                     multiplier == p.multiplier * 128
                 IN  IF p.ret # "none" THEN p
                     ELSE IF k > Len(s) THEN [p EXCEPT !.value = -1, !.ret = "timeout"]
                     ELSE IF multiplier > 128 * 128 * 128
                     THEN [ ret |-> "error", read |-> k, multiplier |-> multiplier,
                            value |-> -1 ]
                     ELSE [ ret |-> IF encodedByte \div 128 # 0 THEN "none" ELSE "value",
                            read |-> k, multiplier |-> multiplier, value |-> value ]
    IN  [ rest |-> SubSeq(s, pass[4].read + 1, Len(s)), value |-> pass[4].value ]

\* A remaining length that sendPublish is about to write (n), or the bytes a
\* peer has sent after a fixed header (bytes): the lengths around the powers
\* of 128 up to 128^4 - 1 = 268435455, and the byte sequences of up to MaxLengthBytes bytes with and
\* without the continuation bit.
InitLength ==
    /\ connectedMQTTClients = <<>>
    /\ activeSubscriptions = <<>>
    /\ retainedMessages = [t \in Topics |-> NoPayload]
    /\ vecBuf = 0
    /\ vecCap = 0
    /\ now = 0
    /\ loopIdx = 0
    /\ nextSid = 1
    /\ sent = <<>>
    /\ nread = [publish |-> 0, pubrel |-> 0]
    /\ pendingQoS2 = EmptyMap
    /\ \/ \E k \in 0..4, m \in {1, 2, 127}, d \in {-1, 0, 1} :
            /\ k = 4 => (m = 1 /\ d = -1)
            /\ m * 128^k + d <= 128^4 - 1
            /\ ev = [ NoEvent EXCEPT !.op = "remLen",
                       !.length = [ n |-> m * 128^k + d, bytes |-> <<>>, value |-> 0 ] ]
       \/ \E len \in 1..MaxLengthBytes :
            \E s \in [1..len -> {0, 1, 127, 128, 255}] :
              ev = [ NoEvent EXCEPT !.op = "received",
                       !.length = [ n |-> 0, bytes |-> s, value |-> 0 ] ]

\* sendPublish writes the remaining length.
SendLength ==
    /\ ev.op = "remLen"
    /\ ev' = [ev EXCEPT !.op = "written", !.length.bytes = encodeRemainingLength(ev.length.n)]
    /\ UNCHANGED << connectedMQTTClients, activeSubscriptions, retainedMessages, vecBuf,
                    vecCap, now, loopIdx, nextSid, sent, nread, pendingQoS2 >>

\* decodeRemainingLength reads what sendPublish wrote, or what a peer sent.
ReadLength ==
    /\ ev.op \in {"written", "received"}
    /\ ev' = [ev EXCEPT !.op = IF ev.op = "written" THEN "round_trip" ELSE "decoded",
                        !.length.value = decodeRemainingLength(ev.length.bytes).value,
                        !.unread = decodeRemainingLength(ev.length.bytes).rest]
    /\ UNCHANGED << connectedMQTTClients, activeSubscriptions, retainedMessages, vecBuf,
                    vecCap, now, loopIdx, nextSid, sent, nread, pendingQoS2 >>

SpecLength == InitLength /\ [][SendLength \/ ReadLength]_vars

\* ------------------------------------------------------ the matcher alone
\* A topic and a topic filter, each given by 1 to MaxLevels segments and
\* written as a String with "/" between the segments; a segment is a name,
\* "+", "#" or empty.
InitMatch ==
    /\ connectedMQTTClients = <<>>
    /\ activeSubscriptions = <<>>
    /\ retainedMessages = [t \in Topics |-> NoPayload]
    /\ vecBuf = 0
    /\ vecCap = 0
    /\ now = 0
    /\ loopIdx = 0
    /\ nextSid = 1
    /\ sent = <<>>
    /\ nread = [publish |-> 0, pubrel |-> 0]
    /\ pendingQoS2 = EmptyMap
    /\ \E nt \in 1..MaxLevels, nf \in 1..MaxLevels :
         \E ts \in [1..nt -> { <<"a">>, <<"b">>, <<"+">>, <<"#">>, <<>> }],
            fs \in [1..nf -> { <<"a">>, <<"b">>, <<"+">>, <<"#">>, <<>> }] :
           LET String(segments) ==
                   LET upTo[k \in 1..Len(segments)] ==
                           IF k = 1 THEN segments[1]
                           ELSE upTo[k - 1] \o << "/" >> \o segments[k]
                   IN  upTo[Len(segments)]
           IN  ev = [ NoEvent EXCEPT
                        !.op = "topic_and_filter",
                        !.match = [ topic |-> ts, filter |-> fs, topicString |-> String(ts),
                                    filterString |-> String(fs), result |-> FALSE ] ]

\* topicMatches(topic, filter)
Match ==
    /\ ev.op = "topic_and_filter"
    /\ ev' = [ev EXCEPT !.op = "matched",
                        !.match.result = topicMatches(ev.match.topicString,
                                                      ev.match.filterString)]
    /\ UNCHANGED << connectedMQTTClients, activeSubscriptions, retainedMessages, vecBuf,
                    vecCap, now, loopIdx, nextSid, sent, nread, pendingQoS2 >>

SpecMatch == InitMatch /\ [][Match]_vars

\* ------------------------------------------------------------------ properties
PublishesIn(out) == { m \in 1..Len(out) : out[m].type = "PUBLISH" }

\* The session of connection sid is in connectedMQTTClients and connected.
Connected(sid) ==
    \E j \in 1..Len(connectedMQTTClients) :
        connectedMQTTClients[j].sid = sid /\ connectedMQTTClients[j].connected

\* C1: the step that reads a QoS 2 PUBLISH writes nothing but the PUBREC to its
\* sender; a PUBLISH that carries a message received at QoS 2 is written only
\* in the step that reads a PUBREL with the message's packet id from the
\* session the message came from.
C1_ForwardedOnlyOnPubRel ==
    /\ (ev.op = "publish" /\ ev.qos = 2) =>
          sent = << Pkt(ev.sid, "PUBREC", ev.pid) >>
    /\ \A m \in PublishesIn(sent) :
          (sent[m].srcKind = "pub" /\ sent[m].srcQos = 2) =>
              /\ ev.op = "pubrel"
              /\ ev.sid = sent[m].srcSid
              /\ ev.pid = sent[m].srcPid

\* A PUBREL released a stored QoS 2 message to another session.
C1_Witness ==
    /\ ev.op = "pubrel"
    /\ \E m \in PublishesIn(sent) :
          sent[m].srcQos = 2 /\ sent[m].srcSid = ev.sid /\ sent[m].to # ev.sid

\* C2: while a publisher runs the QoS 2 exchange of a packet id (PUBLISH, DUP
\* retransmissions, then PUBRELs), the forwarding loop has run for it not at
\* all before the first PUBREL and exactly once after it, and one run of the
\* loop writes at most one PUBLISH per entry of the subscription index.
C2_AtMostOnce ==
    /\ \A j \in 1..Len(connectedMQTTClients), p \in PacketIds :
          LET x == connectedMQTTClients[j].x2[p]
          IN  /\ x.phase = "published" => x.passes = 0
              /\ x.phase = "released" => x.passes = 1
    /\ ev.passes <= 1
    /\ \A m, n \in PublishesIn(sent) :
          (sent[m].srcKind = "pub" /\ sent[n].srcKind = "pub" /\ sent[m].sub = sent[n].sub)
              => m = n

\* A repeated PUBREL, after a DUP retransmission and a first PUBREL that
\* forwarded the message, forwards nothing.
C2_Witness ==
    /\ ev.op = "pubrel"
    /\ ev.passes = 0
    /\ sent = << Pkt(ev.sid, "PUBCOMP", ev.pid) >>
    /\ \E j \in 1..Len(connectedMQTTClients) :
          /\ connectedMQTTClients[j].sid = ev.sid
          /\ connectedMQTTClients[j].x2[ev.pid] =
               [ passes |-> 1, phase |-> "released", dups |-> TRUE ]
    /\ \E k \in 1..Len(activeSubscriptions) :
          /\ Connected(activeSubscriptions[k].owner)
          /\ activeSubscriptions[k].owner # ev.sid
          /\ \E t \in Topics : topicMatches(t, activeSubscriptions[k].topicFilter)

\* The session of entry k of the subscription index, as the SUBSCRIBE made it,
\* is connected and its filter matches topic.
Due(k, topic) ==
    /\ Connected(activeSubscriptions[k].owner)
    /\ topicMatches(topic, activeSubscriptions[k].topicFilter)

\* C3: the step that reads a QoS 1 PUBLISH from a session with CONNACK writes a
\* PUBLISH with its topic and payload to every connected session with a
\* matching subscription, and then the PUBACK with its packet id to the sender.
C3_QoS1Delivered ==
    (ev.op = "publish" /\ ev.qos = 1 /\ ev.acked) =>
        /\ \A k \in 1..Len(activeSubscriptions) :
              Due(k, ev.topic) =>
                  \E m \in PublishesIn(sent) :
                      /\ sent[m].to = activeSubscriptions[k].owner
                      /\ sent[m].topic = ev.topic
                      /\ sent[m].payload = ev.payload
        /\ sent # <<>>
        /\ sent[Len(sent)] = Pkt(ev.sid, "PUBACK", ev.pid)

\* C4: every entry of the subscription index holds the address of a slot of
\* connectedMQTTClients that is occupied by the session that sent the
\* SUBSCRIBE, and after a session is reaped no entry made by it remains.
C4_IndexRefersToOwner ==
    /\ \A k \in 1..Len(activeSubscriptions) :
          LET ptr == activeSubscriptions[k].clientState
          IN  /\ Live(ptr, Len(connectedMQTTClients))
              /\ connectedMQTTClients[ptr.idx].sid = activeSubscriptions[k].owner
    /\ ev.op = "reap" =>
          \A k \in 1..Len(activeSubscriptions) : activeSubscriptions[k].owner # ev.sid

\* C9: a PUBLISH forwarded for an inbound PUBLISH of QoS q to a subscription
\* granted QoS g carries QoS min(q, g), and it is given a packet id and an
\* in-flight entry exactly when min(q, g) > 0.
C9_EffectiveQoS ==
    \A m \in PublishesIn(sent) :
        sent[m].srcKind = "pub" =>
            LET q == sent[m].srcQos
                g == activeSubscriptions[sent[m].sub].qos
                effective == IF q < g THEN q ELSE g
            IN  /\ sent[m].qos = effective
                /\ (sent[m].pid # 0) = (effective > 0)
                /\ \A j \in 1..Len(connectedMQTTClients) :
                      connectedMQTTClients[j].sid = sent[m].to =>
                          (effective > 0) =
                              (\E p \in DOMAIN connectedMQTTClients[j].outgoingQoSMessages :
                                   connectedMQTTClients[j].outgoingQoSMessages[p].topic
                                       = sent[m].topic)

\* C10: a step that forwards a message writes exactly one PUBLISH for every
\* entry of the subscription index whose session is connected and whose
\* filter matches, to that session, and none for any other entry.
C10_OnePerMatchingEntry ==
    (ev.op \in {"publish", "pubrel"} /\ ev.passes = 1) =>
        \A k \in 1..Len(activeSubscriptions) :
            LET copies == { m \in PublishesIn(sent) : sent[m].sub = k }
            IN  /\ Cardinality(copies) = IF Due(k, ev.topic) THEN 1 ELSE 0
                /\ \A m \in copies : sent[m].to = activeSubscriptions[k].owner

\* The step wrote a PUBLISH with the event's topic and payload to the session
\* of every entry of the subscription index that is connected and matches.
DeliveredToDue ==
    \A k \in 1..Len(activeSubscriptions) :
        Due(k, ev.topic) =>
            \E m \in PublishesIn(sent) :
                /\ sent[m].to = activeSubscriptions[k].owner
                /\ sent[m].topic = ev.topic
                /\ sent[m].payload = ev.payload

\* C5: the step that reaps a session which had its CONNACK, holds a will and
\* lost its connection without DISCONNECT writes a PUBLISH with the will topic
\* and the will message to every connected session with a matching
\* subscription.
C5_WillAtReap ==
    (ev.op = "reap" /\ ev.acked /\ ev.hadWill /\ ev.closedBy = "peer") => DeliveredToDue

\* C7: a session is closed by keep-alive exactly when its keep-alive k is
\* above 0 and it has been silent for more than 1.5 k seconds at its pass of
\* processMQTTClient; no packet of such a session is processed; and the closing
\* step first writes the will, if set, to every connected session with a
\* matching subscription.
C7_KeepAliveClose ==
    /\ ev.op = "keepalive" =>
          /\ ev.keepAlive > 0
          /\ ev.idle > ev.keepAlive * KeepAliveFactorMs
          /\ ~Connected(ev.sid)
          /\ ev.hadWill => DeliveredToDue
    /\ (ev.acked /\ ev.op \in {"idle", "publish", "subscribe", "pingreq"}) =>
          ~(ev.keepAlive > 0 /\ ev.idle > ev.keepAlive * KeepAliveFactorMs)

\* C8: every packet read from a session restarts its keep-alive timer, and a
\* session that has sent a packet at least every k seconds is not closed by
\* keep-alive.
C8_AnyPacketRestartsTimer ==
    /\ (ev.acked /\ ev.op \in {"publish", "subscribe", "pingreq"}) =>
          \A j \in 1..Len(connectedMQTTClients) :
              connectedMQTTClients[j].sid = ev.sid =>
                  connectedMQTTClients[j].lastSeen = now
    /\ ev.op = "keepalive" => ~ev.regular

\* C6: the broker of part_000 writes a will only in the step that removes its
\* session, at most once, and not at all when the session was closed by a
\* DISCONNECT.
C6_NoWillAfterDisconnect ==
    /\ \A m \in PublishesIn(sent) :
          sent[m].srcKind = "will" => (ev.op = "remove" /\ ev.sid = sent[m].srcSid)
    /\ ev.op = "remove" => ev.passes <= 1
    /\ (ev.op = "remove" /\ ev.closedBy = "disconnect") =>
          \A m \in PublishesIn(sent) : sent[m].topic # ev.topic

\* What the step wrote to the session it read from: the PUBLISH packets with
\* topic t.
ReplayedTo(sid, t) ==
    { m \in PublishesIn(sent) : sent[m].to = sid /\ sent[m].topic = t }

\* C11: after the step that reads a PUBLISH with RETAIN=1 and QoS 0 or 1 the
\* retained store holds the packet's payload for its topic, or nothing for it
\* if the payload is empty; and the step that reads a SUBSCRIBE writes to the
\* subscriber, for every topic that matches the filter, one PUBLISH with
\* RETAIN=1 and the stored payload if the store holds one, and no PUBLISH if
\* it holds none.
C11_RetainedRoundTrip ==
    /\ (ev.op = "publish" /\ ev.acked /\ ev.retain /\ ev.qos \in {0, 1}) =>
          IF ev.payload = <<>>
          THEN retainedMessages[ev.topic] = NoPayload
          ELSE ev.payload = retainedMessages[ev.topic]
    /\ (ev.op = "subscribe" /\ ev.acked) =>
          \A t \in Topics :
              topicMatches(t, ev.topic) =>
                  IF retainedMessages[t] = NoPayload
                  THEN ReplayedTo(ev.sid, t) = {}
                  ELSE /\ Cardinality(ReplayedTo(ev.sid, t)) = 1
                       /\ \A m \in ReplayedTo(ev.sid, t) :
                              sent[m].retain /\ sent[m].payload = retainedMessages[t]

C13_SubackPerFilter ==
    (ev.op = "subscribe" /\ ev.acked) =>
        LET N == Len(ev.tuples)
            granted == [ n \in 1..N |-> IF ev.tuples[n].qos <= 2 THEN ev.tuples[n].qos ELSE 0 ]
            subs == activeSubscriptions
            base == Len(subs) - N
        IN  /\ { m \in 1..Len(sent) : sent[m].type = "SUBACK" } # {}
            /\ \A m \in 1..Len(sent) :
                  sent[m].type = "SUBACK" =>
                      sent[m].to = ev.sid /\ sent[m].pid = ev.pid /\ sent[m].codes = granted
            /\ base >= 0
            /\ \A n \in 1..N :
                  /\ subs[base + n].owner = ev.sid
                  /\ subs[base + n].topicFilter = ev.tuples[n].filter
                  /\ subs[base + n].qos = granted[n]
            /\ \A j \in 1..Len(connectedMQTTClients) :
                  connectedMQTTClients[j].sid = ev.sid =>
                      LET mine == connectedMQTTClients[j].subscribedTopics
                      IN  /\ Len(mine) >= N
                          /\ \A n \in 1..N : mine[Len(mine) - N + n] = ev.tuples[n].filter

\* C14: the step that reads a SUBSCRIBE writes to the subscriber only: first
\* the SUBACK, then one PUBLISH for every topic of the retained store that
\* matches the filter, with RETAIN=1, the stored payload and the granted QoS,
\* and with a packet id and an in-flight entry exactly when that QoS is above
\* 0; it writes no PUBLISH for any other topic.
C14_SubackThenRetained ==
    (ev.op = "subscribe" /\ ev.acked) =>
        LET grantedQoS == IF ev.tuples[1].qos > 2 THEN 0 ELSE ev.tuples[1].qos
            due == { t \in Topics : /\ retainedMessages[t] # NoPayload
                                    /\ topicMatches(t, ev.topic) }
        IN  /\ sent # <<>>
            /\ sent[1].type = "SUBACK"
            /\ \A m \in 1..Len(sent) : sent[m].to = ev.sid
            /\ \A m \in 2..Len(sent) :
                  /\ sent[m].type = "PUBLISH"
                  /\ sent[m].topic \in due
                  /\ sent[m].payload = retainedMessages[sent[m].topic]
                  /\ sent[m].retain
                  /\ sent[m].qos = grantedQoS
                  /\ (sent[m].pid # 0) = (grantedQoS > 0)
                  /\ grantedQoS > 0 =>
                        \A j \in 1..Len(connectedMQTTClients) :
                            connectedMQTTClients[j].sid = ev.sid =>
                                LET out == connectedMQTTClients[j].outgoingQoSMessages
                                IN  /\ sent[m].pid \in DOMAIN out
                                    /\ out[sent[m].pid].topic = sent[m].topic
                                    /\ out[sent[m].pid].payload = sent[m].payload
            /\ \A t \in due :
                  Cardinality({ m \in 2..Len(sent) : sent[m].topic = t }) = 1

\* A SUBSCRIBE was answered with the SUBACK and then a retained message at
\* QoS 1, while another session holds a matching subscription.
C14_Witness ==
    /\ ev.op = "subscribe"
    /\ Len(sent) = 2
    /\ sent[1].type = "SUBACK"
    /\ sent[2].type = "PUBLISH" /\ sent[2].retain /\ sent[2].qos = 1
    /\ \E k \in 1..Len(activeSubscriptions) :
          activeSubscriptions[k].owner # ev.sid /\ Due(k, sent[2].topic)

\* C15: after the step that reads a CONNECT packet of MQTT 3.1.1 the session
\* holds the keep-alive, the client identifier and the will flag of the
\* packet, its will topic and will message if the flag is set, and no byte of
\* the packet is left in the socket (user name and password were consumed).
C15_ConnectParsed ==
    (ev.op = "connect" /\ ev.connect.cut = 0) =>
        \A j \in 1..Len(connectedMQTTClients) :
            connectedMQTTClients[j].sid = ev.sid =>
                LET cs == connectedMQTTClients[j]
                    c == ev.connect
                IN  /\ cs.clientKeepAliveSec = c.keepAlive
                    /\ cs.clientId = c.clientId
                    /\ cs.hasLWT = c.willFlag
                    /\ c.willFlag => /\ cs.willTopic = c.willTopic
                                     /\ cs.willMessage = c.willMessage
                    /\ ev.unread = <<>>

\* C16: a session without CONNACK is closed, and nothing is written, when its
\* first packet is no CONNECT or is a CONNECT that cannot be parsed to its
\* end; a CONNECT that can is answered with the CONNACK alone and the session
\* has its CONNACK afterwards; and every other packet that is processed
\* comes from a session that has its CONNACK.
C16_OnlyConnectFirst ==
    /\ ev.op \in {"not_connect", "connect_timeout"} =>
          sent = <<>> /\ ~Connected(ev.sid)
    /\ (ev.op = "connect" /\ ev.connect.cut > 0) =>
          sent = <<>> /\ ~Connected(ev.sid)
    /\ (ev.op = "connect" /\ ev.connect.cut = 0) =>
          /\ sent = << Pkt(ev.sid, "CONNACK", 0) >>
          /\ \A j \in 1..Len(connectedMQTTClients) :
                connectedMQTTClients[j].sid = ev.sid =>
                    /\ connectedMQTTClients[j].connected
                    /\ connectedMQTTClients[j].connectedACKSent
    /\ ev.op = "await" => sent = <<>>
    /\ ev.op \in {"publish", "subscribe", "disconnect", "idle"} => ev.acked
    /\ sent # <<>> => ev.op \in {"connect", "publish", "subscribe"}

\* C17: a session's packet id counter starts at 1 and stays in 1..65535; a
\* PUBLISH written with QoS above 0 carries a packet id in 1..65535, and the
\* counter then stands at its successor, which is 1 after 65535.
C17_PacketIdRange ==
    /\ ev.op = "accept" =>
          connectedMQTTClients[Len(connectedMQTTClients)].nextOutgoingPacketId = 1
    /\ \A j \in 1..Len(connectedMQTTClients) :
          connectedMQTTClients[j].nextOutgoingPacketId \in 1..(Pow16 - 1)
    /\ \A m \in PublishesIn(sent) :
          (sent[m].qos > 0 /\ ~sent[m].dup) =>
              /\ sent[m].pid \in 1..(Pow16 - 1)
              /\ \A j \in 1..Len(connectedMQTTClients) :
                    (/\ connectedMQTTClients[j].sid = sent[m].to
                     /\ \A n \in PublishesIn(sent) : sent[n].to = sent[m].to => n <= m) =>
                        connectedMQTTClients[j].nextOutgoingPacketId =
                            IF sent[m].pid = Pow16 - 1 THEN 1 ELSE sent[m].pid + 1

\* A session was handed packet id 1 while its message with packet id 65535,
\* handed out before, is in flight.
C17_Witness ==
    \E m \in PublishesIn(sent), j \in 1..Len(connectedMQTTClients) :
        /\ sent[m].pid = 1 /\ sent[m].qos > 0
        /\ connectedMQTTClients[j].sid = sent[m].to
        /\ (Pow16 - 1) \in DOMAIN connectedMQTTClients[j].outgoingQoSMessages
        /\ connectedMQTTClients[j].nextOutgoingPacketId = 2

\* C18: the packet id that sendPublish takes for a PUBLISH with QoS above 0 is
\* not the key of an entry of the session's in-flight map at that moment, so
\* no message in flight is replaced by a newer one.
C18_UniqueOutboundIds ==
    \A m \in PublishesIn(sent) :
        (sent[m].qos > 0 /\ ~sent[m].dup) => sent[m].fresh

\* C19: no in-flight entry has a retryCount above MAX_QOS_RETRIES.  In a pass
\* of processMQTTClient over a session, an entry that has timed out with a
\* retryCount below MAX_QOS_RETRIES is written once more (PUBLISH with DUP,
\* PUBREL or PUBCOMP by its state) and, while it stays in the map, has its
\* retryCount one higher and its timestampSent at the present time (a PUBREC
\* read in the same pass starts the count of the PUBREL at 0); an entry that
\* has timed out with retryCount MAX_QOS_RETRIES is not written again, is
\* erased, and the session is closed.
C19_RetryBudget ==
    [][ /\ \A j \in 1..Len(connectedMQTTClients') :
             \A p \in DOMAIN connectedMQTTClients'[j].outgoingQoSMessages :
                 connectedMQTTClients'[j].outgoingQoSMessages[p].retryCount
                     \in 0..MAX_QOS_RETRIES
        /\ (/\ Established
            /\ loopIdx' = loopIdx - 1
            /\ ev'.op \in {"idle", "puback", "pubrec", "pubcomp", "retries"}) =>
             LET cs == connectedMQTTClients[loopIdx]
                 after == connectedMQTTClients'[loopIdx]
                 timedOut(p) ==
                     Elapsed(cs.outgoingQoSMessages[p].timestampSent) > QoS_TIMEOUT_MS
                 exhausted == { p \in DOMAIN cs.outgoingQoSMessages :
                                  /\ timedOut(p)
                                  /\ cs.outgoingQoSMessages[p].retryCount
                                        >= MAX_QOS_RETRIES }
                 written(p) == { m \in 1..Len(sent') :
                                   /\ sent'[m].to = cs.sid
                                   /\ sent'[m].pid = p
                                   /\ \/ sent'[m].type = "PUBLISH" /\ sent'[m].dup
                                      \/ sent'[m].type \in {"PUBREL", "PUBCOMP"} }
             IN  /\ \A p \in DOMAIN cs.outgoingQoSMessages :
                       (/\ timedOut(p)
                        /\ cs.outgoingQoSMessages[p].retryCount < MAX_QOS_RETRIES
                        /\ \A x \in exhausted : p < x) =>
                           /\ written(p) # {}
                           /\ p \in DOMAIN after.outgoingQoSMessages =>
                                 LET outMsg == cs.outgoingQoSMessages[p]
                                     again == after.outgoingQoSMessages[p]
                                 IN  /\ again.timestampSent = now
                                     /\ \/ again.retryCount = outMsg.retryCount + 1
                                        \/ /\ ev'.op = "pubrec"
                                           /\ again.state = 1
                                           /\ again.retryCount = 0
                 /\ exhausted # {} =>
                       /\ ev'.op = "retries"
                       /\ ~after.connected
                       /\ after.closedBy = "retries"
                       /\ Min(exhausted) \notin DOMAIN after.outgoingQoSMessages
                       /\ written(Min(exhausted)) = {}
                 /\ exhausted = {} => ev'.op # "retries"
      ]_vars

\* A session was closed in the pass that found its message timed out after
\* MAX_QOS_RETRIES retransmissions; the entry is gone.
C19_Witness ==
    /\ ev.op = "retries"
    /\ \E j \in 1..Len(connectedMQTTClients) :
          /\ connectedMQTTClients[j].sid = ev.sid
          /\ ~connectedMQTTClients[j].connected
          /\ connectedMQTTClients[j].closedBy = "retries"
          /\ connectedMQTTClients[j].outgoingQoSMessages = EmptyMap
    /\ now = (MAX_QOS_RETRIES + 1) * (QoS_TIMEOUT_MS + TickMs)

\* C20: a session that holds a will and was closed because a message to it
\* timed out after MAX_QOS_RETRIES retransmissions has had its will written to
\* every connected session with a matching subscription by the time it is
\* reaped: in the pass that closed it, or at the latest in the reaping step.
C20_WillOnExhaustedRetries ==
    (ev.op = "reap" /\ ev.closedBy = "retries" /\ ev.hadWill) =>
        (ev.willSent \/ DeliveredToDue)

\* C21: a message that a session sent at QoS 2 is not written to a subscriber
\* for the first time after a PUBLISH which the same session sent later on the
\* same topic was written to that subscriber: the step that reads the PUBREL
\* and forwards the stored message writes it to no connection in the stored
\* message's set later.
C21_OrderPreserved ==
    [][ (Established /\ loopIdx' = loopIdx - 1 /\ ev'.op = "pubrel") =>
          LET cs == connectedMQTTClients[loopIdx]
          IN  ev'.pid \in DOMAIN cs.incomingQoS2Messages =>
                \A m \in PublishesIn(sent') :
                    (sent'[m].srcKind = "pub" /\ sent'[m].srcSid = cs.sid) =>
                        sent'[m].to \notin cs.incomingQoS2Messages[ev'.pid].later
      ]_vars

\* C22: a step that reads a truncated frame, or a PUBLISH or SUBSCRIBE whose
\* topic length says more than the packet holds, closes the session that sent
\* it, writes nothing, and leaves the subscription index and the retained
\* store as they were.
C22_MalformedFrameCloses ==
    [][ (Established /\ ev'.frame \in {"cut", "long"}) =>
          /\ ~connectedMQTTClients'[loopIdx].connected
          /\ sent' = <<>>
          /\ activeSubscriptions' = activeSubscriptions
          /\ retainedMessages' = retainedMessages
      ]_vars

\* C23: a step closes or removes no session but the one it is about: every
\* session that was connected before the step and is not the session of the
\* step is in the vector and connected after it; and a step that reads a
\* packet of unknown type leaves the session that sent it closed.
C23_ErrorsStayLocal ==
    [][ /\ \A j \in 1..Len(connectedMQTTClients) :
              ( /\ connectedMQTTClients[j].connected
                /\ connectedMQTTClients[j].sid # ev'.sid ) =>
                  \E k \in 1..Len(connectedMQTTClients') :
                      /\ connectedMQTTClients'[k].sid = connectedMQTTClients[j].sid
                      /\ connectedMQTTClients'[k].connected
        /\ ev'.op = "unknown" =>
              \E k \in 1..Len(connectedMQTTClients') :
                  /\ connectedMQTTClients'[k].sid = ev'.sid
                  /\ ~connectedMQTTClients'[k].connected
      ]_vars

\* A packet of unknown type was read from one of two established sessions.
C23_Witness ==
    /\ ev.op = "unknown"
    /\ \E j, k \in 1..Len(connectedMQTTClients) :
          /\ connectedMQTTClients[j].sid = ev.sid
          /\ connectedMQTTClients[j].closedBy = "broker"
          /\ connectedMQTTClients[k].sid # ev.sid
          /\ connectedMQTTClients[k].connected
          /\ connectedMQTTClients[k].connectedACKSent

\* C24: a pass that reads a PUBACK, PUBREC or PUBCOMP whose packet id is no
\* key of the session's outgoingQoSMessages leaves the session connected, and
\* leaves its two QoS tables as a pass without data would (the retransmissions
\* of the pass apart, nothing changes), and the subscription index and the
\* retained store as they were.
C24_UnknownAckIgnored ==
    [][ ( /\ Established
          /\ ev'.op \in {"puback", "pubrec", "pubcomp"}
          /\ ev'.pid \notin DOMAIN connectedMQTTClients[loopIdx].outgoingQoSMessages ) =>
            \A r \in Resolutions(activeSubscriptions, Len(connectedMQTTClients)) :
              LET idle == processMQTTClient(Here, loopIdx, NoData, r).cl[loopIdx]
                  after == connectedMQTTClients'[loopIdx]
              IN  /\ after.connected
                  /\ after.outgoingQoSMessages = idle.outgoingQoSMessages
                  /\ after.incomingQoS2Messages = idle.incomingQoS2Messages
                  /\ activeSubscriptions' = activeSubscriptions
                  /\ retainedMessages' = retainedMessages
      ]_vars

\* A PUBREC with a packet id that is not in flight was read from a session
\* that has a message in flight and a stored QoS 2 message (handlePubRec
\* erases nothing, so the packet id was no key before the pass either).
C24_Witness ==
    /\ ev.op = "pubrec"
    /\ \E j \in 1..Len(connectedMQTTClients) :
          /\ connectedMQTTClients[j].sid = ev.sid
          /\ connectedMQTTClients[j].connected
          /\ connectedMQTTClients[j].outgoingQoSMessages # EmptyMap
          /\ ev.pid \notin DOMAIN connectedMQTTClients[j].outgoingQoSMessages
          /\ connectedMQTTClients[j].incomingQoS2Messages # EmptyMap

\* C25: every message stored in pendingQoS2 was stored by a session that is
\* still in connectedMQTTClients: removeClient leaves no entry of the session
\* it removes.
C25_PendingDiscarded ==
    \A key \in DOMAIN pendingQoS2 :
        \E j \in 1..Len(connectedMQTTClients) :
            connectedMQTTClients[j].sid = pendingQoS2[key].org.sid

\* C26: decodeRemainingLength returns n for the bytes that sendPublish writes
\* for a remaining length n of 0..268435455, which are 1 to 4 bytes; and it
\* returns -1 for bytes of which the first four all have the continuation bit
\* set.
C26_RemainingLengthRoundTrip ==
    /\ ev.op = "round_trip" =>
          /\ Len(ev.length.bytes) \in 1..4
          /\ ev.length.value = ev.length.n
    /\ ( /\ ev.op = "decoded"
         /\ Len(ev.length.bytes) >= 4
         /\ \A k \in 1..4 : ev.length.bytes[k] >= 128 ) =>
          ev.length.value = -1

\* C27: topicMatches gives TRUE exactly when the filter is "#", or the filter
\* ends in "#", the topic has at least as many segments as the filter has
\* before the "#", and agrees with each of those that is not "+", or the
\* filter ends otherwise, the topic has as many segments as the filter and
\* agrees with each that is not "+".  In particular every topic matches
\* itself.
C27_MatcherAsSpecified ==
    ev.op = "matched" =>
        LET t == ev.match.topic
            f == ev.match.filter
            agree(n) == \A k \in 1..n : f[k] = << "+" >> \/ t[k] = f[k]
        IN  /\ ev.match.result =
                  ( \/ f = << << "#" >> >>
                    \/ /\ f[Len(f)] = << "#" >>
                       /\ Len(t) >= Len(f) - 1
                       /\ agree(Len(f) - 1)
                    \/ /\ f[Len(f)] # << "#" >>
                       /\ Len(t) = Len(f)
                       /\ agree(Len(f)) )
            /\ t = f => ev.match.result

\* The matcher was asked for the topic "a" and the filter "a/#", and said yes.
C27_Witness ==
    /\ ev.op = "matched"
    /\ ev.match.topicString = << "a" >>
    /\ ev.match.filterString = << "a", "/", "#" >>
    /\ ev.match.result

\* C28: the step that reads a PUBREL from an established session writes a
\* PUBCOMP with its packet id to that session; if the packet id was a key of
\* the session's incomingQoS2Messages, it is none after the step, and the step
\* wrote the stored message to every connected session with a matching
\* subscription.
C28_PubRelAnswered ==
    [][ (Established /\ ev'.op = "pubrel") =>
          LET cs == connectedMQTTClients[loopIdx]
              after == connectedMQTTClients'[loopIdx]
          IN  /\ \E m \in 1..Len(sent') :
                    sent'[m] = Pkt(cs.sid, "PUBCOMP", ev'.pid)
              /\ ev'.pid \in DOMAIN cs.incomingQoS2Messages =>
                    /\ ev'.pid \notin DOMAIN after.incomingQoS2Messages
                    /\ DeliveredToDue'
      ]_vars

\* C29: the step that reads a PUBREC from an established session writes a
\* PUBREL with its packet id to that session.  If the packet id is the key of
\* a QoS 2 entry of outgoingQoSMessages in state 0, the entry goes to state 1
\* with its time stamp at the present and its retry count at 0; otherwise no
\* entry changes (the retransmissions of the pass apart).
C29_PubRecAnswered ==
    [][ (Established /\ ev'.op = "pubrec") =>
          \A r \in Resolutions(activeSubscriptions, Len(connectedMQTTClients)) :
            LET cs == connectedMQTTClients[loopIdx]
                before == processMQTTClient(Here, loopIdx, NoData, r).cl[loopIdx]
                             .outgoingQoSMessages
                after == connectedMQTTClients'[loopIdx].outgoingQoSMessages
                p == ev'.pid
            IN  /\ \E m \in 1..Len(sent') : sent'[m] = Pkt(cs.sid, "PUBREL", p)
                /\ after =
                     IF p \in DOMAIN before /\ before[p].qos = 2 /\ before[p].state = 0
                     THEN [before EXCEPT ![p] = [@ EXCEPT !.state = 1,
                                                          !.timestampSent = now,
                                                          !.retryCount = 0]]
                     ELSE before
      ]_vars

\* C30: the step that reads a PUBACK erases the entry of outgoingQoSMessages
\* with its packet id only if that is a QoS 1 entry; the step that reads a
\* PUBCOMP erases it only if that is a QoS 2 entry in state 1 (PUBREL sent).
C30_AckInMatchingPhase ==
    [][ (Established /\ ev'.op \in {"puback", "pubcomp"}) =>
          LET before == connectedMQTTClients[loopIdx].outgoingQoSMessages
              after == connectedMQTTClients'[loopIdx].outgoingQoSMessages
              p == ev'.pid
          IN  (p \in DOMAIN before /\ p \notin DOMAIN after) =>
                  IF ev'.op = "puback"
                  THEN before[p].qos = 1 /\ before[p].state = 0
                  ELSE before[p].qos = 2 /\ before[p].state = 1
      ]_vars

\* C31: the step that reads a QoS 2 PUBLISH with DUP=1 whose packet id is a
\* key of the session's incomingQoS2Messages leaves topic and payload of that
\* entry as they were and writes the PUBREC and nothing else; the step that
\* reads any other QoS 2 PUBLISH stores its topic and payload under its
\* packet id.
C31_DupKeepsStoredMessage ==
    [][ (Established /\ ev'.op = "publish" /\ ev'.qos = 2) =>
          LET cs == connectedMQTTClients[loopIdx]
              before == cs.incomingQoS2Messages
              after == connectedMQTTClients'[loopIdx].incomingQoS2Messages
              p == ev'.pid
          IN  /\ sent' = << Pkt(cs.sid, "PUBREC", p) >>
              /\ p \in DOMAIN after
              /\ IF ev'.dup /\ p \in DOMAIN before
                 THEN /\ after[p].topic = before[p].topic
                      /\ after[p].payload = before[p].payload
                 ELSE /\ after[p].topic = ev'.topic
                      /\ after[p].payload = ev'.payload
      ]_vars

\* C32: the step that reads a PUBREL whose packet id is a key of the session's
\* incomingQoS2Messages writes its PUBLISH packets with the RETAIN bit of the
\* PUBLISH that stored the entry, and it changes retainedMessages exactly when
\* that bit was set: the topic's entry becomes the payload, or is deleted when
\* the payload is empty.  The step that reads a QoS 2 PUBLISH leaves
\* retainedMessages as it was.
C32_RetainOfOriginal ==
    [][ /\ (Established /\ ev'.op = "publish" /\ ev'.qos = 2) =>
              retainedMessages' = retainedMessages
        /\ ( /\ Established
             /\ ev'.op = "pubrel"
             /\ ev'.pid \in DOMAIN connectedMQTTClients[loopIdx].incomingQoS2Messages ) =>
              LET inMsg == connectedMQTTClients[loopIdx].incomingQoS2Messages[ev'.pid]
              IN  /\ \A m \in PublishesIn(sent') : sent'[m].retain = inMsg.retain
                  /\ ( IF inMsg.retain
                        THEN [retainedMessages EXCEPT ![inMsg.topic] =
                                 IF Len(inMsg.payload) = 0 THEN NoPayload
                                 ELSE inMsg.payload]
                        ELSE retainedMessages ) = retainedMessages'
      ]_vars

\* C33: in a pass over an established session that reads nothing and closes
\* nothing, every entry of outgoingQoSMessages that has timed out is written
\* again as the packet of its phase - a QoS 1 entry and a QoS 2 entry before
\* its PUBREC as the PUBLISH with DUP=1 and the entry's packet id, topic,
\* payload, QoS and RETAIN, a QoS 2 entry after its PUBREC as the PUBREL with
\* its packet id - and the pass writes nothing else (the PUBREC of the inbound
\* table apart), takes no packet id and adds no entry.
C33_RetransmitsPhasePacket ==
    [][ (Established /\ loopIdx' = loopIdx - 1 /\ ev'.op = "idle") =>
          LET cs == connectedMQTTClients[loopIdx]
              after == connectedMQTTClients'[loopIdx]
              before == cs.outgoingQoSMessages
              due == { p \in DOMAIN before :
                         Elapsed(before[p].timestampSent) > QoS_TIMEOUT_MS }
              again(p) ==
                  IF before[p].qos = 1 \/ before[p].state = 0
                  THEN [ Pkt(cs.sid, "PUBLISH", p) EXCEPT
                           !.topic = before[p].topic, !.payload = before[p].payload,
                           !.qos = before[p].qos, !.retain = before[p].retain,
                           !.dup = TRUE ]
                  ELSE Pkt(cs.sid, "PUBREL", p)
          IN  /\ \A p \in due : \E m \in 1..Len(sent') : sent'[m] = again(p)
              /\ \A m \in 1..Len(sent') :
                    sent'[m].type # "PUBREC" => \E p \in due : sent'[m] = again(p)
              /\ DOMAIN after.outgoingQoSMessages = DOMAIN before
              /\ after.nextOutgoingPacketId = cs.nextOutgoingPacketId
      ]_vars

\* C34: a pass over an established session whose socket held no bytes of an
\* earlier packet, and which reads a PUBLISH, SUBSCRIBE, PUBACK, PUBREL or
\* PINGREQ that arrived whole, leaves no byte of it in the socket.
C34_FramingPreserved ==
    [][ ( /\ Established
          /\ loopIdx' = loopIdx - 1
          /\ connectedMQTTClients[loopIdx].rx = <<>>
          /\ ev'.op \in {"publish", "subscribe", "puback", "pubrel", "pingreq"} ) =>
            connectedMQTTClients'[loopIdx].rx = <<>>
      ]_vars

\* C35: a pass over an established session that reads nothing and writes the
\* PUBREC of an entry of incomingQoS2Messages again leaves that entry with its
\* time-out period started anew, so that the next pass does not find it timed
\* out again.
C35_PubRecSpaced ==
    [][ (Established /\ loopIdx' = loopIdx - 1 /\ ev'.op = "idle") =>
          LET cs == connectedMQTTClients[loopIdx]
              after == connectedMQTTClients'[loopIdx].incomingQoS2Messages
          IN  \A p \in DOMAIN cs.incomingQoS2Messages :
                 (\E m \in 1..Len(sent') : sent'[m] = Pkt(cs.sid, "PUBREC", p)) =>
                     /\ p \in DOMAIN after
                     /\ now' - after[p].timestampReceived <= QoS_TIMEOUT_MS
      ]_vars

\* C36: the step that reads a PUBREL from an established session leaves the
\* session's outgoingQoSMessages as the retransmissions of the pass left it:
\* no entry changes its state, retry count or time stamp.
C36_PubRelLeavesOutbound ==
    [][ (Established /\ loopIdx' = loopIdx - 1 /\ ev'.op = "pubrel") =>
          \A r \in Resolutions(activeSubscriptions, Len(connectedMQTTClients)) :
            LET before == processMQTTClient(Here, loopIdx, NoData, r).cl[loopIdx]
                             .outgoingQoSMessages
                after == connectedMQTTClients'[loopIdx].outgoingQoSMessages
            IN  \A p \in DOMAIN before :
                    p \in DOMAIN after => after[p] = before[p]
      ]_vars

\* Some connected or not yet reaped session has a message in flight.
InFlight ==
    \E j \in 1..Len(connectedMQTTClients) :
        connectedMQTTClients[j].outgoingQoSMessages # EmptyMap

\* C37: while loop() keeps running and time goes on, a message in flight does
\* not stay in flight for ever: its entry is erased by an acknowledgement or
\* by the pass that gives up on it, or it goes with its session at the reap.
C37_InFlightEnds == InFlight ~> ~InFlight

\* The clock of SpecPhasesFair does not run out while a message is in flight
\* that has not timed out: its bound ends no exchange.
PhaseClockSuffices ==
    (\E j \in 1..Len(connectedMQTTClients) :
        /\ connectedMQTTClients[j].connected
        /\ connectedMQTTClients[j].outgoingQoSMessages # EmptyMap
        /\ \A p \in DOMAIN connectedMQTTClients[j].outgoingQoSMessages :
              Elapsed(connectedMQTTClients[j].outgoingQoSMessages[p].timestampSent)
                 <= QoS_TIMEOUT_MS)
      => now + QoS_TIMEOUT_MS + TickMs <= MaxPhaseTimeouts * (QoS_TIMEOUT_MS + TickMs)

\* The longest exchange has ended: a QoS 2 message was retransmitted
\* MAX_QOS_RETRIES times in each of its three states, and the pass after the
\* last time-out closed the session and erased the entry.
C37_Witness ==
    /\ ev.op = "retries"
    /\ ~InFlight
    /\ now = (3 * MAX_QOS_RETRIES + 1) * (QoS_TIMEOUT_MS + TickMs)

\* C38 (part_000): of two sessions in connectedMQTTClients with the same
\* client id, the step that reads a QoS 2 PUBLISH or a PUBREL from one leaves
\* the messages that the other has stored in pendingQoS2 where they are and
\* forwards none of them, and the step that removes one leaves the entries of
\* the other in the subscription index.
C38_SameIdIndependent ==
    [][ loopIdx >= 1 =>
          LET cs == connectedMQTTClients[loopIdx]
              twins == { connectedMQTTClients[j].sid :
                           j \in { n \in 1..Len(connectedMQTTClients) :
                                     /\ n # loopIdx
                                     /\ connectedMQTTClients[n].clientId = cs.clientId } }
          IN  /\ ev'.op \in {"publish", "pubrel"} =>
                    /\ \A key \in DOMAIN pendingQoS2 :
                          pendingQoS2[key].org.sid \in twins =>
                              /\ key \in DOMAIN pendingQoS2'
                              /\ pendingQoS2'[key] = pendingQoS2[key]
                    /\ \A m \in PublishesIn(sent') :
                          ~(sent'[m].srcKind = "pub" /\ sent'[m].srcSid \in twins)
              /\ ev'.op = "remove" =>
                    \A k \in 1..Len(activeSubscriptions) :
                        activeSubscriptions[k].owner \in twins =>
                            \E n \in 1..Len(activeSubscriptions') :
                                /\ activeSubscriptions'[n].owner = activeSubscriptions[k].owner
                                /\ activeSubscriptions'[n].topicFilter
                                      = activeSubscriptions[k].topicFilter
      ]_vars

\* Connection s holds a slot of connectedMQTTClients without CONNACK.
AwaitsConnect(s) ==
    \E j \in 1..Len(connectedMQTTClients) :
        /\ connectedMQTTClients[j].sid = s
        /\ ~connectedMQTTClients[j].connectedACKSent

\* C39: while loop() keeps running and time goes on, no accepted connection
\* holds a slot without CONNACK for ever: it gets its CONNACK, or it is closed
\* and its slot is erased.
C39_LeavesAwaitConnect ==
    \A s \in 1..MaxConn : AwaitsConnect(s) ~> ~AwaitsConnect(s)
====
